---- MODULE Spec2Model ----
(***************************************************************************)
(* State-machine model of the room / round core of the word game server    *)
(* (src/server/src/rooms.ts, src/server/src/words.ts) together with the    *)
(* event-loop behaviour of its one suspending operation, submitWordAsync.  *)
(*                                                                         *)
(* Strings that the code inspects character by character (player names,    *)
(* submitted words) are sequences of one-character strings.                *)
(***************************************************************************)
EXTENDS Integers, Sequences, FiniteSets, TLC

VARIABLES
  rooms,              \* Map<string, RoomState>: function, DOMAIN = live codes
  roundStates,        \* Map<string, RoundState>: code -> reference into heap
  heap,               \* RoundState objects, by reference
  dictionary,         \* words.ts `dictionary` (grows by dict.add)
  apiValidatedWords,  \* words.ts cache Map<string, boolean>
  now,                \* Date.now() in ms
  pending,            \* submitWordAsync calls suspended at the fetch await
  last,               \* the call that completed in the last step and its result
  calls,              \* numbers of submitWordAsync calls and of rounds created so far
  timers              \* setTimeout/setInterval callbacks of index.ts not yet run

vars == <<rooms, roundStates, heap, dictionary, apiValidatedWords, now, pending, last,
          calls, timers>>

(***************************************************************************)
(* Bounds of the model                                                     *)
(***************************************************************************)
MaxNow == 30500
MaxPending == 2
MaxPlayers == 3
MaxSubmits == 2
MaxRoundsCreated == 2

(***************************************************************************)
(* Characters and strings                                                  *)
(***************************************************************************)
UpperChars == <<"A","B","C","D","E","F","G","H","I","J","K","L","M",
                "N","O","P","Q","R","S","T","U","V","W","X","Y","Z">>
LowerChars == <<"a","b","c","d","e","f","g","h","i","j","k","l","m",
                "n","o","p","q","r","s","t","u","v","w","x","y","z">>

IsLowerLetter(c) == \E i \in 1..26 : LowerChars[i] = c

ToLowerChar(c) ==
  IF \E i \in 1..26 : UpperChars[i] = c
  THEN LowerChars[CHOOSE i \in 1..26 : UpperChars[i] = c]
  ELSE c

\* String.prototype.toLowerCase
toLowerCase(s) == [i \in 1..Len(s) |-> ToLowerChar(s[i])]

RECURSIVE TrimLeft(_)
TrimLeft(s) == IF s # <<>> /\ Head(s) = " " THEN TrimLeft(Tail(s)) ELSE s

RECURSIVE TrimRight(_)
TrimRight(s) ==
  IF s # <<>> /\ s[Len(s)] = " " THEN TrimRight(SubSeq(s, 1, Len(s) - 1)) ELSE s

\* String.prototype.trim
trim(s) == TrimRight(TrimLeft(s))

\* String.prototype.slice(0, n)
slice0(s, n) == SubSeq(s, 1, IF Len(s) < n THEN Len(s) ELSE n)

NameMaxLen == 15

\* name.trim().slice(0, 15)
StoredName(name) == slice0(trim(name), NameMaxLen)

\* word.toLowerCase().trim().replace(/[^a-z]/g, '')
NormalizeWord(word) == SelectSeq(trim(toLowerCase(word)), IsLowerLetter)

Min(a, b) == IF a < b THEN a ELSE b
Max(a, b) == IF a > b THEN a ELSE b

Undefined == "undefined"
UndefinedWord == <<"undefined">>

(***************************************************************************)
(* JavaScript Map with insertion order: a sequence of entries, each with   *)
(* its map key.  A Player entry carries the key next to the Player fields, *)
(* because joinRoom can change player.id without re-keying the entry.      *)
(***************************************************************************)
MapHas(m, k) == \E i \in 1..Len(m) : m[i].key = k
MapIndex(m, k) == CHOOSE i \in 1..Len(m) : m[i].key = k
MapGet(m, k) == m[MapIndex(m, k)]
MapSet(m, k, v) ==
  IF MapHas(m, k) THEN [m EXCEPT ![MapIndex(m, k)] = v] ELSE Append(m, v)
MapDelete(m, k) == SelectSeq(m, LAMBDA e : e.key # k)
MapKeys(m) == {m[i].key : i \in 1..Len(m)}

\* Plain keyed maps (order irrelevant): TLA+ functions with a growing domain.
Get(f, k, default) == IF k \in DOMAIN f THEN f[k] ELSE default
Put(f, k, v) == [x \in DOMAIN f \cup {k} |-> IF x = k THEN v ELSE f[x]]
Del(f, k) == [x \in DOMAIN f \ {k} |-> f[x]]
EmptyMap == [x \in {} |-> 0]

(***************************************************************************)
(* Rooms: construction                                                     *)
(***************************************************************************)
DefaultRounds == 7
DefaultRoundSeconds == 60
DefaultMinLen == 3
MaxRoomPlayers == 10

defaultSettings ==
  [rounds |-> DefaultRounds, roundSeconds |-> DefaultRoundSeconds,
   minLen |-> DefaultMinLen, fullBonusEnabled |-> TRUE, gameMode |-> "classic"]

NewPlayer(playerId, name, host) ==
  [key |-> playerId, id |-> playerId, name |-> StoredName(name),
   connected |-> TRUE, isHost |-> host, score |-> 0, isReady |-> host,
   powerUps |-> [freeze |-> 0, burn |-> 0]]

NewRoom(roomCode, hostName, playerId) ==
  [roomCode |-> roomCode, hostPlayerId |-> playerId,
   players |-> <<NewPlayer(playerId, hostName, TRUE)>>,
   settings |-> defaultSettings, phase |-> "lobby"]

(***************************************************************************)
(* Rooms: operations on one RoomState (pure part of each handler)          *)
(***************************************************************************)
\* rooms.ts joinRoom, lines 83-109: the reconnection of a player whose name
\* matches, or the insertion of a new player under the id's key.
admitPlayer(room, playerName, playerId) ==
    LET matches == {i \in 1..Len(room.players) :
                      toLowerCase(room.players[i].name) = toLowerCase(playerName)}
    IN IF matches # {}
       THEN \* reconnect as the first player with that name; the entry keeps its key
            LET i == CHOOSE j \in matches : \A k \in matches : j <= k
            IN [room |-> [room EXCEPT !.players[i].connected = TRUE,
                                       !.players[i].id = playerId],
                res |-> "ok"]
       ELSE [room |-> [room EXCEPT !.players =
                         MapSet(@, playerId, NewPlayer(playerId, playerName, FALSE))],
             res |-> "ok"]

\* joinRoom that calls a room full only above its tenth player.
joinRoom_OffByOne(room, playerName, playerId) ==
  IF room.phase # "lobby" THEN [room |-> room, res |-> "Game already in progress"]
  ELSE IF Len(room.players) > MaxRoomPlayers THEN [room |-> room, res |-> "Room is full"]
  ELSE admitPlayer(room, playerName, playerId)

\* rooms.ts joinRoom, after the room was found.
joinRoom(room, playerName, playerId) ==
  IF room.phase # "lobby" THEN [room |-> room, res |-> "Game already in progress"]
  ELSE IF Len(room.players) >= MaxRoomPlayers THEN [room |-> room, res |-> "Room is full"]
  ELSE admitPlayer(room, playerName, playerId)

\* rooms.ts setPlayerConnected, after the room was found.
setPlayerConnected(room, playerId, connected) ==
  IF MapHas(room.players, playerId)
  THEN [room EXCEPT !.players[MapIndex(room.players, playerId)].connected = connected]
  ELSE room

\* removePlayer that keeps a room whose last player left.
removePlayer_KeepsEmptyRoom(room, playerId) ==
  LET wasHost == MapHas(room.players, playerId) /\ MapGet(room.players, playerId).isHost
      left == MapDelete(room.players, playerId)
  IN IF wasHost /\ Len(left) > 0
     THEN [room |-> [room EXCEPT !.players = [left EXCEPT ![1].isHost = TRUE],
                                 !.hostPlayerId = left[1].id],
           roomEmpty |-> FALSE, newHostId |-> left[1].id]
     ELSE [room |-> [room EXCEPT !.players = left],
           roomEmpty |-> FALSE, newHostId |-> Undefined]

\* rooms.ts removePlayer, after the room was found.  roomEmpty tells the caller
\* to delete the room and its round state.
removePlayer(room, playerId) ==
  LET wasHost == MapHas(room.players, playerId) /\ MapGet(room.players, playerId).isHost
      left == MapDelete(room.players, playerId)
  IN IF wasHost /\ Len(left) > 0
     THEN [room |-> [room EXCEPT !.players = [left EXCEPT ![1].isHost = TRUE],
                                 !.hostPlayerId = left[1].id],
           roomEmpty |-> FALSE, newHostId |-> left[1].id]
     ELSE [room |-> [room EXCEPT !.players = left],
           roomEmpty |-> (Len(left) = 0), newHostId |-> Undefined]

\* Math.max(lo, x): the upper limit is not applied.
Clamp_NoUpper(lo, hi, x) == Max(lo, x)

Clamp(lo, hi, x) == Max(lo, Min(hi, x))

MinRounds == 1
MaxRounds == 20
MinRoundSeconds == 30
MaxRoundSeconds == 180
MinMinLen == 2
MaxMinLen == 7

\* The caller is the host: the player map's entry for the caller's id has isHost.
CallerIsHost(room, playerId) ==
  MapHas(room.players, playerId) /\ MapGet(room.players, playerId).isHost

\* rooms.ts updateSettings, lines 172-176: the assignments of the supplied fields.
ApplySettings(settings, partial) ==
  [rounds |-> IF "rounds" \in DOMAIN partial
              THEN Clamp(MinRounds, MaxRounds, partial.rounds) ELSE settings.rounds,
   roundSeconds |-> IF "roundSeconds" \in DOMAIN partial
                    THEN Clamp(MinRoundSeconds, MaxRoundSeconds, partial.roundSeconds)
                    ELSE settings.roundSeconds,
   minLen |-> IF "minLen" \in DOMAIN partial
              THEN Clamp(MinMinLen, MaxMinLen, partial.minLen) ELSE settings.minLen,
   fullBonusEnabled |-> IF "fullBonusEnabled" \in DOMAIN partial
                        THEN partial.fullBonusEnabled ELSE settings.fullBonusEnabled,
   gameMode |-> IF "gameMode" \in DOMAIN partial
                THEN partial.gameMode ELSE settings.gameMode]

\* updateSettings that accepts any member of the room as the caller.
updateSettings_AnyMember(room, playerId, partial) ==
  IF ~MapHas(room.players, playerId) THEN [room |-> room, res |-> "null"]
  ELSE [room |-> [room EXCEPT !.settings = ApplySettings(@, partial)], res |-> "settings"]

\* rooms.ts updateSettings, after the room was found.
updateSettings(room, playerId, partial) ==
  IF ~CallerIsHost(room, playerId) THEN [room |-> room, res |-> "null"]
  ELSE [room |-> [room EXCEPT !.settings = ApplySettings(@, partial)], res |-> "settings"]

\* rooms.ts togglePlayerReady, after the room was found.
togglePlayerReady(room, playerId) ==
  IF ~MapHas(room.players, playerId) \/ MapGet(room.players, playerId).isHost
  THEN [room |-> room, res |-> "null"]
  ELSE LET i == MapIndex(room.players, playerId)
       IN [room |-> [room EXCEPT !.players[i].isReady = ~@],
           res |-> IF room.players[i].isReady THEN "false" ELSE "true"]

\* transferHost that accepts a member who is not connected as the target.
transferHost_ToDisconnected(room, currentHostId, newHostId) ==
  IF ~CallerIsHost(room, currentHostId)
  THEN [room |-> room, res |-> "Only current host can transfer"]
  ELSE IF ~MapHas(room.players, newHostId)
  THEN [room |-> room, res |-> "New host not found or not connected"]
  ELSE LET c == MapIndex(room.players, currentHostId)
           n == MapIndex(room.players, newHostId)
           cleared == [room.players EXCEPT ![c].isHost = FALSE]
       IN [room |-> [room EXCEPT !.players = [cleared EXCEPT ![n].isHost = TRUE],
                                 !.hostPlayerId = newHostId],
           res |-> "ok"]

\* rooms.ts transferHost, after the room was found.
transferHost(room, currentHostId, newHostId) ==
  IF ~CallerIsHost(room, currentHostId)
  THEN [room |-> room, res |-> "Only current host can transfer"]
  ELSE IF ~MapHas(room.players, newHostId) \/ ~MapGet(room.players, newHostId).connected
  THEN [room |-> room, res |-> "New host not found or not connected"]
  ELSE LET c == MapIndex(room.players, currentHostId)
           n == MapIndex(room.players, newHostId)
           cleared == [room.players EXCEPT ![c].isHost = FALSE]
       IN [room |-> [room EXCEPT !.players = [cleared EXCEPT ![n].isHost = TRUE],
                                 !.hostPlayerId = newHostId],
           res |-> "ok"]

\* Math.ceil(score * 0.1) for an integer score.
CeilTenth(score) == (score + 9) \div 10

\* rooms.ts usePowerUp, lines 248-249: the players a burn can hit.
BurnTargets(room, playerId) ==
  {i \in 1..Len(room.players) :
     /\ room.players[i].id # playerId
     /\ room.players[i].connected
     /\ room.players[i].score > 0}

\* rooms.ts usePowerUp, lines 243-260, for a caller found in the room; `target`
\* is the player the random draw picks when a burn has targets.
spendPowerUp(room, playerId, type, target) ==
  LET c == MapIndex(room.players, playerId)
      spent == [room EXCEPT !.players[c].powerUps[type] = @ - 1]
  IN IF type = "burn"
     THEN IF BurnTargets(spent, playerId) # {}
          THEN LET score == spent.players[target].score
                   pointsLost == Min(score, CeilTenth(score))
               IN [room |-> [spent EXCEPT !.players[target].score = @ - pointsLost],
                   res |-> "true", target |-> spent.players[target].id,
                   pointsLost |-> pointsLost]
          ELSE [room |-> spent, res |-> "false", target |-> Undefined, pointsLost |-> 0]
     ELSE [room |-> spent, res |-> "true", target |-> Undefined, pointsLost |-> 0]

\* usePowerUp that spends a power-up the caller does not have.
usePowerUp_NoCountCheck(room, playerId, type, target) ==
  IF ~MapHas(room.players, playerId)
  THEN [room |-> room, res |-> "false", target |-> Undefined, pointsLost |-> 0]
  ELSE spendPowerUp(room, playerId, type, target)

\* rooms.ts usePowerUp, after the room was found.
usePowerUp(room, playerId, type, target) ==
  IF ~MapHas(room.players, playerId) \/ MapGet(room.players, playerId).powerUps[type] <= 0
  THEN [room |-> room, res |-> "false", target |-> Undefined, pointsLost |-> 0]
  ELSE spendPowerUp(room, playerId, type, target)

(***************************************************************************)
(* Words (words.ts)                                                        *)
(***************************************************************************)
W_letters == <<"l","e","t","t","e","r","s">>
W_wording == <<"w","o","r","d","i","n","g">>
W_letter == <<"l","e","t","t","e","r">>
W_player == <<"p","l","a","y","e","r">>
W_win == <<"w","i","n">>
W_let == <<"l","e","t">>
W_le == <<"l","e">>
W_keyboard == <<"k","e","y","b","o","a","r","d">>
Raw_Let == <<" ","L","e","t","!">>

\* loadSourceWords (two of its fallback words) and loadDictionary (three of its
\* fallback words); the data files themselves are not part of the sources.
SourceWords == {W_letters, W_wording}
InitialDictionary == {W_letter, W_player, W_win}
\* generateTeaser: the built-in riddle's answer.
RiddleAnswers == {W_keyboard}

\* Number of occurrences of letter c in string s.
CountOf(s, c) == Cardinality({i \in 1..Len(s) : s[i] = c})

\* canBuildFromLetters that only asks whether each letter occurs in the source.
canBuildFromLetters_NoCount(word, sourceWord) ==
  LET w == toLowerCase(word)
      src == toLowerCase(sourceWord)
  IN \A i \in 1..Len(w) : CountOf(src, w[i]) > 0

\* words.ts canBuildFromLetters: scans the word left to right and fails at the
\* first letter whose running count exceeds its count in the source word.
canBuildFromLetters(word, sourceWord) ==
  LET w == toLowerCase(word)
      src == toLowerCase(sourceWord)
  IN \A i \in 1..Len(w) :
       /\ CountOf(src, w[i]) > 0
       /\ CountOf(SubSeq(w, 1, i), w[i]) <= CountOf(src, w[i])

\* words.ts usesAllLetters
usesAllLetters(word, sourceWord) ==
  Len(word) = Len(sourceWord) /\ canBuildFromLetters(word, sourceWord)

\* words.ts calculatePoints
calculatePoints(wordLength) ==
  IF wordLength = 3 THEN 1
  ELSE IF wordLength = 4 THEN 2
  ELSE IF wordLength = 5 THEN 4
  ELSE IF wordLength = 6 THEN 7
  ELSE 11

FullBonus == 8

\* calculateFullBonus that ignores the length of the word.
calculateFullBonus_AnyLength(word, sourceWord, bonusEnabled) ==
  IF bonusEnabled /\ canBuildFromLetters(word, sourceWord) THEN FullBonus ELSE 0

\* words.ts calculateFullBonus
calculateFullBonus(word, sourceWord, bonusEnabled) ==
  IF bonusEnabled /\ usesAllLetters(word, sourceWord) THEN FullBonus ELSE 0

\* words.ts getRandomDictionaryWord: the words Math.random can select.
DictionaryWords(dict, minLength, maxLength) ==
  {w \in dict : Len(w) >= minLength /\ Len(w) <= maxLength}

GuessWordLength == 6

(***************************************************************************)
(* Rounds                                                                  *)
(***************************************************************************)
\* The words createRound's random draw can produce for a mode.
RoundWords(gameMode, dict) ==
  CASE gameMode = "classic" -> SourceWords
    [] gameMode \in {"guess", "scramble"} ->
         DictionaryWords(dict, GuessWordLength, GuessWordLength)
    [] gameMode = "teaser" -> RiddleAnswers
    [] OTHER -> {<<>>}

\* rooms.ts createRound; `drawn` is the word the mode's random generator returned.
createRound(room, roundIndex, drawn, t) ==
  LET keys == MapKeys(room.players)
      gameMode == room.settings.gameMode
  IN [roundIndex |-> roundIndex,
      sourceWord |-> IF gameMode \in {"classic", "guess", "scramble", "teaser"}
                     THEN drawn ELSE <<>>,
      startedAt |-> t,
      endsAt |-> t + room.settings.roundSeconds * 1000,
      usedWordsGlobal |-> {},
      submissionsByPlayerId |-> [k \in keys |-> <<>>],
      scoresByPlayerId |-> [k \in keys |-> 0],
      roundScoresByPlayerId |-> [k \in keys |-> 0],
      gameMode |-> gameMode,
      correctAnswer |-> IF gameMode \in {"guess", "scramble", "teaser"}
                        THEN drawn ELSE UndefinedWord,
      solvedBy |-> Undefined]

\* startGame that leaves the scores of the previous game in place.
startGame_NoScoreReset(room, playerId) ==
  LET connectedPlayers == {i \in 1..Len(room.players) : room.players[i].connected}
  IN IF ~CallerIsHost(room, playerId)
     THEN [room |-> room, res |-> "Only host can start game"]
     ELSE IF Cardinality(connectedPlayers) < 2
     THEN [room |-> room, res |-> "Need at least 2 players"]
     ELSE IF Cardinality(connectedPlayers) > MaxRoomPlayers
     THEN [room |-> room, res |-> "Too many players"]
     ELSE [room |-> [room EXCEPT !.phase = "round"], res |-> "ok"]

\* rooms.ts startGame, lines 268-280: the checks and the score reset.
startGame(room, playerId) ==
  LET connectedPlayers == {i \in 1..Len(room.players) : room.players[i].connected}
  IN IF ~CallerIsHost(room, playerId)
     THEN [room |-> room, res |-> "Only host can start game"]
     ELSE IF Cardinality(connectedPlayers) < 2
     THEN [room |-> room, res |-> "Need at least 2 players"]
     ELSE IF Cardinality(connectedPlayers) > MaxRoomPlayers
     THEN [room |-> room, res |-> "Too many players"]
     ELSE [room |-> [room EXCEPT
                       !.players = [i \in 1..Len(room.players) |->
                                      [room.players[i] EXCEPT !.score = 0]],
                       !.phase = "round"],
           res |-> "ok"]

\* rooms.ts submitWordAsync, guess and scramble branches (lines 382-441).
submitGuess(room, roundState, playerId, normalizedWord, t) ==
  IF roundState.solvedBy # Undefined
  THEN [room |-> room, roundState |-> roundState, res |-> "already_solved",
        points |-> 0, solved |-> FALSE]
  ELSE IF normalizedWord = roundState.correctAnswer
  THEN LET timeBonus == Max(1, (roundState.endsAt - t) \div 1000)
           points == 10 + timeBonus
       IN IF MapHas(room.players, playerId)
          THEN LET i == MapIndex(room.players, playerId)
                   score == room.players[i].score + points
               IN [room |-> [room EXCEPT !.players[i].score = score],
                   roundState |-> [roundState EXCEPT
                      !.scoresByPlayerId = Put(@, playerId, score),
                      !.solvedBy = playerId],
                   res |-> "ok", points |-> points, solved |-> TRUE]
          ELSE [room |-> room, roundState |-> roundState, res |-> "ok",
                points |-> points, solved |-> TRUE]
  ELSE [room |-> room, roundState |-> roundState, res |-> "wrong_guess",
        points |-> 0, solved |-> FALSE]

\* rooms.ts submitWordAsync, lines 468-514: the word is claimed, listed and
\* scored, and the power-ups it earns are awarded.
acceptClassic(room, roundState, playerId, normalizedWord) ==
    LET submissions ==
          Append(Get(roundState.submissionsByPlayerId, playerId, <<>>), normalizedWord)
        totalPoints == calculatePoints(Len(normalizedWord))
                       + calculateFullBonus(normalizedWord, roundState.sourceWord,
                                            room.settings.fullBonusEnabled)
        rs1 == [roundState EXCEPT
                  !.usedWordsGlobal = @ \cup {normalizedWord},
                  !.submissionsByPlayerId = Put(@, playerId, submissions),
                  !.roundScoresByPlayerId =
                     Put(@, playerId, Get(@, playerId, 0) + totalPoints)]
    IN IF MapHas(room.players, playerId)
       THEN LET i == MapIndex(room.players, playerId)
                p == room.players[i]
                score == p.score + totalPoints
                freeze == p.powerUps.freeze + (IF Len(submissions) = 5 THEN 1 ELSE 0)
                burn == p.powerUps.burn + (IF totalPoints >= 10 THEN 1 ELSE 0)
            IN [room |-> [room EXCEPT !.players[i].score = score,
                                      !.players[i].powerUps.freeze = freeze,
                                      !.players[i].powerUps.burn = burn],
                roundState |-> [rs1 EXCEPT !.scoresByPlayerId = Put(@, playerId, score)],
                res |-> "ok", points |-> totalPoints, solved |-> FALSE]
       ELSE [room |-> room, roundState |-> rs1, res |-> "ok",
             points |-> totalPoints, solved |-> FALSE]

\* submitClassic with the check of usedWordsGlobal left out.
submitClassic_NoUsedCheck(room, roundState, playerId, normalizedWord) ==
  IF ~canBuildFromLetters(normalizedWord, roundState.sourceWord)
  THEN [room |-> room, roundState |-> roundState, res |-> "invalid_letters",
        points |-> 0, solved |-> FALSE]
  ELSE acceptClassic(room, roundState, playerId, normalizedWord)

\* rooms.ts submitWordAsync after the dictionary validation succeeded
\* (lines 456-514): letters, global uniqueness, then acceptance.
submitClassic(room, roundState, playerId, normalizedWord) ==
  IF ~canBuildFromLetters(normalizedWord, roundState.sourceWord)
  THEN [room |-> room, roundState |-> roundState, res |-> "invalid_letters",
        points |-> 0, solved |-> FALSE]
  ELSE IF normalizedWord \in roundState.usedWordsGlobal
  THEN [room |-> room, roundState |-> roundState, res |-> "already_used",
        points |-> 0, solved |-> FALSE]
  ELSE acceptClassic(room, roundState, playerId, normalizedWord)

\* rooms.ts endRound, after room and round state were found.
endRound(room, roundState) ==
  IF roundState.roundIndex >= room.settings.rounds - 1
  THEN [room EXCEPT !.phase = "game_over"]
  ELSE [room EXCEPT !.phase = "round_results"]

\* playAgain that leaves the scores of the finished game in place.
playAgain_KeepsScores(room) ==
  [room EXCEPT !.phase = "lobby"]

\* rooms.ts playAgain, after the room was found.
playAgain(room) ==
  [room EXCEPT !.phase = "lobby",
               !.players = [i \in 1..Len(room.players) |->
                              [room.players[i] EXCEPT !.score = 0]]]

\* Array.prototype.sort with a comparator (a, b) => key(b) - key(a), keys[i]
\* being the key of seq[i]: the sort is stable, so entries of equal key keep
\* their order.
StableSortDesc(seq, keys) ==
  LET n == Len(seq)
      rank(i) == 1 + Cardinality({j \in 1..n :
                        \/ keys[j] > keys[i]
                        \/ (keys[j] = keys[i] /\ j < i)})
  IN [k \in 1..n |-> seq[CHOOSE i \in 1..n : rank(i) = k]]

\* getGameEndState that names the first of the leaderboard the winner even
\* when others share its score.
getGameEndState_WinnerOnTie(room) ==
  LET leaderboard ==
        StableSortDesc([i \in 1..Len(room.players) |->
                          [playerId |-> room.players[i].id,
                           playerName |-> room.players[i].name,
                           totalPoints |-> room.players[i].score]],
                       [i \in 1..Len(room.players) |-> room.players[i].score])
      tiedPlayers == {i \in 1..Len(leaderboard) :
                        leaderboard[i].totalPoints = leaderboard[1].totalPoints}
  IN [finalLeaderboard |-> leaderboard,
      winner |-> IF Len(leaderboard) > 0 THEN <<leaderboard[1]>> ELSE <<>>,
      isDraw |-> Len(leaderboard) > 1 /\ Cardinality(tiedPlayers) > 1]

\* rooms.ts getGameEndState; a null winner is <<>>, a winner w is <<w>>.
getGameEndState(room) ==
  LET leaderboard ==
        StableSortDesc([i \in 1..Len(room.players) |->
                          [playerId |-> room.players[i].id,
                           playerName |-> room.players[i].name,
                           totalPoints |-> room.players[i].score]],
                       [i \in 1..Len(room.players) |-> room.players[i].score])
      tiedPlayers == {i \in 1..Len(leaderboard) :
                        leaderboard[i].totalPoints = leaderboard[1].totalPoints}
  IN [finalLeaderboard |-> leaderboard,
      winner |-> IF Len(leaderboard) > 0 /\ Cardinality(tiedPlayers) = 1
                 THEN <<leaderboard[1]>> ELSE <<>>,
      isDraw |-> Len(leaderboard) > 1 /\ Cardinality(tiedPlayers) > 1]

\* rooms.ts getRoundEndState, lines 610-619: the loop that finds the best word
\* of a player's submissions; a null bestWord is <<>>, a word w is <<w>>.
RECURSIVE bestWordOf(_)
bestWordOf(submissions) ==
  IF submissions = <<>> THEN [bestWord |-> <<>>, bestWordPoints |-> 0]
  ELSE LET best == bestWordOf(SubSeq(submissions, 1, Len(submissions) - 1))
           word == submissions[Len(submissions)]
           points == calculatePoints(Len(word))
           bestLen == IF best.bestWord = <<>> THEN 0 ELSE Len(best.bestWord[1])
       IN IF \/ points > best.bestWordPoints
             \/ (points = best.bestWordPoints /\ Len(word) > bestLen)
          THEN [bestWord |-> <<word>>, bestWordPoints |-> points]
          ELSE best

\* rooms.ts getRoundEndState, after room and round state were found.
getRoundEndState(room, roundState) ==
  LET entry(p) ==
        LET best == bestWordOf(Get(roundState.submissionsByPlayerId, p.id, <<>>))
        IN [playerId |-> p.id, playerName |-> p.name,
            roundPoints |-> Get(roundState.roundScoresByPlayerId, p.id, 0),
            totalPoints |-> p.score,
            bestWord |-> best.bestWord, bestWordPoints |-> best.bestWordPoints]
      hasCorrectAnswer == roundState.correctAnswer # UndefinedWord
      anyoneSolved == roundState.solvedBy # Undefined
      nobodySolved == hasCorrectAnswer /\ ~anyoneSolved
  IN [roundIndex |-> roundState.roundIndex,
      leaderboard |-> StableSortDesc([i \in 1..Len(room.players) |-> entry(room.players[i])],
                                     [i \in 1..Len(room.players) |->
                                        entry(room.players[i]).roundPoints]),
      roundStats |-> [totalWordsSubmitted |-> Cardinality(roundState.usedWordsGlobal),
                      sourceWord |-> roundState.sourceWord],
      correctAnswer |-> IF nobodySolved THEN roundState.correctAnswer ELSE UndefinedWord,
      gameMode |-> roundState.gameMode]

\* The result of the call that completed in this step; `final` is the game end
\* state a call returns when it ends the game.
Ret(op, code, pid, res) ==
  [op |-> op, code |-> code, pid |-> pid, res |-> res, word |-> <<>>,
   points |-> 0, solved |-> FALSE, target |-> Undefined, round |-> 0,
   partial |-> <<>>, type |-> Undefined, source |-> <<>>, final |-> <<>>]

(***************************************************************************)
(* The handlers as actions on the module-level maps                        *)
(***************************************************************************)
\* References of the round objects still reachable from roundStates or from a
\* suspended submitWordAsync call; the others are garbage.
Collect(h, rs, pend) ==
  LET live == {rs[c] : c \in DOMAIN rs} \cup {pend[i].round : i \in 1..Len(pend)}
  IN [r \in live \cap DOMAIN h |-> h[r]]

NewRef(h) == CHOOSE r \in 1..(Cardinality(DOMAIN h) + 1) : r \notin DOMAIN h

LiveRoom == [live |-> TRUE, room |-> <<>>]

\* A suspended call holds the RoomState object it looked up; once the room is
\* deleted from `rooms` the call keeps that (now unreachable) object.
Detach(pend, code, room) ==
  [i \in 1..Len(pend) |->
     IF pend[i].code = code /\ pend[i].room.live
     THEN [pend[i] EXCEPT !.room = [live |-> FALSE, room |-> room]]
     ELSE pend[i]]

\* rooms.ts createRoom; generateRoomCode returned `code`, a code of no live room.
CreateRoom(code, hostName, playerId) ==
  /\ code \notin DOMAIN rooms
  /\ rooms' = Put(rooms, code, NewRoom(code, hostName, playerId))
  /\ last' = Ret("createRoom", code, playerId, "ok")
  /\ UNCHANGED <<roundStates, heap, dictionary, apiValidatedWords, now, pending>>
  /\ UNCHANGED <<calls, timers>>

\* rooms.ts joinRoom; the model follows rooms of at most `cap` players.
JoinRoomUpTo(code, playerName, playerId, cap) ==
  /\ IF code \notin DOMAIN rooms
     THEN /\ last' = Ret("joinRoom", code, playerId, "Room not found")
          /\ UNCHANGED rooms
     ELSE LET r == joinRoom(rooms[code], playerName, playerId)
          IN /\ Len(r.room.players) <= cap
             /\ rooms' = [rooms EXCEPT ![code] = r.room]
             /\ last' = Ret("joinRoom", code, playerId, r.res)
  /\ UNCHANGED <<roundStates, heap, dictionary, apiValidatedWords, now, pending>>
  /\ UNCHANGED <<calls, timers>>

JoinRoom(code, playerName, playerId) == JoinRoomUpTo(code, playerName, playerId, MaxPlayers)

SetPlayerConnected(code, playerId, connected) ==
  /\ code \in DOMAIN rooms
  /\ rooms' = [rooms EXCEPT ![code] = setPlayerConnected(@, playerId, connected)]
  /\ last' = Ret("setPlayerConnected", code, playerId, "ok")
  /\ UNCHANGED <<roundStates, heap, dictionary, apiValidatedWords, now, pending>>
  /\ UNCHANGED <<calls, timers>>

RemovePlayer(code, playerId) ==
  /\ IF code \notin DOMAIN rooms
     THEN /\ last' = Ret("removePlayer", code, playerId, "roomEmpty")
          /\ UNCHANGED <<rooms, roundStates, heap, pending>>
     ELSE LET r == removePlayer(rooms[code], playerId)
          IN IF r.roomEmpty
             THEN /\ rooms' = Del(rooms, code)
                  /\ roundStates' = Del(roundStates, code)
                  /\ pending' = Detach(pending, code, r.room)
                  /\ heap' = Collect(heap, roundStates', pending')
                  /\ last' = [Ret("removePlayer", code, playerId, "roomEmpty")
                                EXCEPT !.round = Get(roundStates, code, 0)]
             ELSE /\ rooms' = [rooms EXCEPT ![code] = r.room]
                  /\ last' = [Ret("removePlayer", code, playerId, "ok")
                                EXCEPT !.target = r.newHostId]
                  /\ UNCHANGED <<roundStates, heap, pending>>
  /\ UNCHANGED <<dictionary, apiValidatedWords, now>>
  /\ UNCHANGED <<calls, timers>>

UpdateSettings(code, playerId, partial) ==
  /\ IF code \notin DOMAIN rooms
     THEN /\ last' = Ret("updateSettings", code, playerId, "null")
          /\ UNCHANGED rooms
     ELSE LET r == updateSettings(rooms[code], playerId, partial)
          IN /\ rooms' = [rooms EXCEPT ![code] = r.room]
             /\ last' = [Ret("updateSettings", code, playerId, r.res)
                           EXCEPT !.partial = partial]
  /\ UNCHANGED <<roundStates, heap, dictionary, apiValidatedWords, now, pending>>
  /\ UNCHANGED <<calls, timers>>

TogglePlayerReady(code, playerId) ==
  /\ IF code \notin DOMAIN rooms
     THEN /\ last' = Ret("togglePlayerReady", code, playerId, "null")
          /\ UNCHANGED rooms
     ELSE LET r == togglePlayerReady(rooms[code], playerId)
          IN /\ rooms' = [rooms EXCEPT ![code] = r.room]
             /\ last' = Ret("togglePlayerReady", code, playerId, r.res)
  /\ UNCHANGED <<roundStates, heap, dictionary, apiValidatedWords, now, pending>>
  /\ UNCHANGED <<calls, timers>>

TransferHost(code, currentHostId, newHostId) ==
  /\ IF code \notin DOMAIN rooms
     THEN /\ last' = Ret("transferHost", code, currentHostId, "Room not found")
          /\ UNCHANGED rooms
     ELSE LET r == transferHost(rooms[code], currentHostId, newHostId)
          IN /\ rooms' = [rooms EXCEPT ![code] = r.room]
             /\ last' = [Ret("transferHost", code, currentHostId, r.res)
                           EXCEPT !.target = newHostId]
  /\ UNCHANGED <<roundStates, heap, dictionary, apiValidatedWords, now, pending>>
  /\ UNCHANGED <<calls, timers>>

\* rooms.ts usePowerUp
UsePowerUp(code, playerId, type) ==
  /\ IF code \notin DOMAIN rooms
     THEN /\ last' = [Ret("usePowerUp", code, playerId, "false") EXCEPT !.type = type]
          /\ UNCHANGED rooms
     ELSE LET room == rooms[code]
              targets == IF BurnTargets(room, playerId) = {}
                         THEN {0} ELSE BurnTargets(room, playerId)
          IN \E target \in targets :
               LET r == usePowerUp(room, playerId, type, target)
               IN /\ rooms' = [rooms EXCEPT ![code] = r.room]
                  /\ last' = [Ret("usePowerUp", code, playerId, r.res)
                                EXCEPT !.type = type, !.target = r.target,
                                       !.points = r.pointsLost]
  /\ UNCHANGED <<roundStates, heap, dictionary, apiValidatedWords, now, pending>>
  /\ UNCHANGED <<calls, timers>>

\* rooms.ts startGame, called on the module-level maps
rooms_startGame(code, playerId) ==
  /\ IF code \notin DOMAIN rooms
     THEN /\ last' = Ret("startGame", code, playerId, "Room not found")
          /\ UNCHANGED <<rooms, roundStates, heap>>
     ELSE LET r == startGame(rooms[code], playerId)
          IN IF r.res # "ok"
             THEN /\ last' = Ret("startGame", code, playerId, r.res)
                  /\ UNCHANGED <<rooms, roundStates, heap>>
             ELSE \E drawn \in RoundWords(r.room.settings.gameMode, dictionary) :
                    LET ref == NewRef(heap)
                    IN /\ rooms' = [rooms EXCEPT ![code] = r.room]
                       /\ roundStates' = Put(roundStates, code, ref)
                       /\ heap' = Collect(Put(heap, ref, createRound(r.room, 0, drawn, now)),
                                          roundStates', pending)
                       /\ last' = Ret("startGame", code, playerId, "ok")
  /\ calls' = IF last'.res = "ok" THEN [calls EXCEPT !.rounds = @ + 1] ELSE calls
  /\ calls'.rounds <= MaxRoundsCreated
  /\ UNCHANGED <<dictionary, apiValidatedWords, now, pending>>

\* startGame called with no callback waiting to be scheduled or run.
StartGame(code, playerId) ==
  /\ rooms_startGame(code, playerId)
  /\ UNCHANGED timers

\* rooms.ts endRound, called on the module-level maps
rooms_endRound(code) ==
  /\ IF code \notin DOMAIN rooms \/ code \notin DOMAIN roundStates
     THEN /\ last' = Ret("endRound", code, Undefined, "null")
          /\ UNCHANGED rooms
     ELSE LET room == endRound(rooms[code], heap[roundStates[code]])
          IN /\ rooms' = [rooms EXCEPT ![code] = room]
             /\ last' = [Ret("endRound", code, Undefined, room.phase)
                            EXCEPT !.final = IF room.phase = "game_over"
                                             THEN getGameEndState(room) ELSE @]
  /\ UNCHANGED <<roundStates, heap, dictionary, apiValidatedWords, now, pending>>
  /\ UNCHANGED calls

\* index.ts round:end
EndRound(code) ==
  /\ rooms_endRound(code)
  /\ UNCHANGED timers

\* rooms.ts nextRound, called on the module-level maps
rooms_nextRound(code) ==
  /\ IF code \notin DOMAIN rooms \/ code \notin DOMAIN roundStates
     THEN /\ last' = Ret("nextRound", code, Undefined, "null")
          /\ UNCHANGED <<rooms, roundStates, heap>>
     ELSE LET room == rooms[code]
              nextRoundIndex == heap[roundStates[code]].roundIndex + 1
          IN IF nextRoundIndex >= room.settings.rounds
             THEN /\ rooms' = [rooms EXCEPT ![code].phase = "game_over"]
                  /\ last' = [Ret("nextRound", code, Undefined, "game_over")
                                 EXCEPT !.final = getGameEndState(rooms'[code])]
                  /\ UNCHANGED <<roundStates, heap>>
             ELSE \E drawn \in RoundWords(room.settings.gameMode, dictionary) :
                    LET ref == NewRef(heap)
                        started == [room EXCEPT !.phase = "round"]
                    IN /\ rooms' = [rooms EXCEPT ![code] = started]
                       /\ roundStates' = Put(roundStates, code, ref)
                       /\ heap' = Collect(Put(heap, ref,
                                              createRound(started, nextRoundIndex, drawn, now)),
                                          roundStates', pending)
                       /\ last' = Ret("nextRound", code, Undefined, "round")
  /\ calls' = IF last'.res = "round" THEN [calls EXCEPT !.rounds = @ + 1] ELSE calls
  /\ calls'.rounds <= MaxRoundsCreated
  /\ UNCHANGED <<dictionary, apiValidatedWords, now, pending>>

\* nextRound called at the end of a round:next countdown.
NextRound(code) ==
  /\ rooms_nextRound(code)
  /\ UNCHANGED timers

\* rooms.ts playAgain
PlayAgain(code) ==
  /\ IF code \notin DOMAIN rooms
     THEN /\ last' = Ret("playAgain", code, Undefined, "false")
          /\ UNCHANGED <<rooms, roundStates, heap>>
     ELSE /\ rooms' = [rooms EXCEPT ![code] = playAgain(@)]
          /\ roundStates' = Del(roundStates, code)
          /\ heap' = Collect(heap, roundStates', pending)
          /\ last' = [Ret("playAgain", code, Undefined, "true")
                         EXCEPT !.round = Get(roundStates, code, 0)]
  /\ UNCHANGED <<dictionary, apiValidatedWords, now, pending>>
  /\ UNCHANGED <<calls, timers>>

\* The clock advances between handlers.
Tick(dt) ==
  /\ now + dt <= MaxNow
  /\ \A i \in 1..Len(timers) : now + dt <= timers[i].due
  /\ now' = now + dt
  /\ last' = Ret("tick", Undefined, Undefined, "ok")
  /\ UNCHANGED <<rooms, roundStates, heap, dictionary, apiValidatedWords, pending>>
  /\ UNCHANGED <<calls, timers>>

(***************************************************************************)
(* submitWordAsync                                                         *)
(***************************************************************************)
\* rooms.ts submitWordAsync, lines 357-371: the checks on entry.
EntryCheck(code) ==
  IF code \notin DOMAIN rooms \/ code \notin DOMAIN roundStates THEN "room_not_found"
  ELSE IF rooms[code].phase # "round" THEN "round_ended"
  ELSE IF now >= heap[roundStates[code]].endsAt THEN "round_ended"
  ELSE "pass"

\* words.ts isValidWordAsync before its fetch (lines 69-80): the local
\* dictionary, then the cache; "fetch" when the external lookup is needed.
LocalVerdict(normalizedWord) ==
  IF normalizedWord \in dictionary THEN "true"
  ELSE IF normalizedWord \in DOMAIN apiValidatedWords
  THEN (IF apiValidatedWords[normalizedWord] THEN "true" ELSE "false")
  ELSE "fetch"

FetchOutcomes == {"ok", "not_ok", "error"}
LenientMinLen == 3

\* words.ts isValidWordAsync after its fetch (lines 94-112): the verdict for
\* each way the lookup can end.
FetchVerdict(normalizedWord, outcome) ==
  CASE outcome = "ok" -> TRUE
    [] outcome = "not_ok" -> FALSE
    [] OTHER -> Len(normalizedWord) >= LenientMinLen
                /\ \A i \in 1..Len(normalizedWord) : IsLowerLetter(normalizedWord[i])

\* `round` is the reference of the RoundState object the call looked up.
SubmitRet(code, playerId, word, ref, r) ==
  [Ret("submitWord", code, playerId, r.res)
     EXCEPT !.word = word, !.points = r.points, !.solved = r.solved, !.round = ref]

Rejected(room, roundState, reason) ==
  [room |-> room, roundState |-> roundState, res |-> reason,
   points |-> 0, solved |-> FALSE]

\* The part of submitWordAsync that runs without suspending once the entry
\* checks passed and the word is known locally (lines 373-515).
submitSync(room, roundState, playerId, normalizedWord, t, verdict) ==
  IF roundState.gameMode \in {"guess", "scramble"}
  THEN submitGuess(room, roundState, playerId, normalizedWord, t)
  ELSE IF Len(normalizedWord) < room.settings.minLen
  THEN Rejected(room, roundState, "too_short")
  ELSE IF verdict = "false"
  THEN Rejected(room, roundState, "not_in_dictionary")
  ELSE submitClassic(room, roundState, playerId, normalizedWord)

\* Whether the call reaches the fetch inside isValidWordAsync and suspends.
Suspends(room, roundState, normalizedWord) ==
  /\ roundState.gameMode \notin {"guess", "scramble"}
  /\ Len(normalizedWord) >= room.settings.minLen
  /\ LocalVerdict(normalizedWord) = "fetch"

\* A call of submitWordAsync, up to its return or to the fetch it awaits.
rooms_submitWordAsync(code, playerId, word) ==
  /\ calls.submits < MaxSubmits
  /\ calls' = [calls EXCEPT !.submits = @ + 1]
  /\ LET check == EntryCheck(code)
         w == NormalizeWord(word)
     IN IF check # "pass"
        THEN /\ last' = [Ret("submitWord", code, playerId, check)
                            EXCEPT !.word = w, !.round = Get(roundStates, code, 0)]
             /\ UNCHANGED <<rooms, roundStates, heap, dictionary, apiValidatedWords,
                            now, pending>>
        ELSE LET room == rooms[code]
                 ref == roundStates[code]
             IN IF Suspends(room, heap[ref], w)
                THEN /\ Len(pending) < MaxPending
                     /\ pending' = Append(pending,
                           [code |-> code, playerId |-> playerId, word |-> w,
                            round |-> ref, room |-> LiveRoom])
                     /\ last' = [Ret("submitWord", code, playerId, "awaiting")
                                    EXCEPT !.word = w, !.round = ref]
                     /\ UNCHANGED <<rooms, roundStates, heap, dictionary,
                                    apiValidatedWords, now>>
                ELSE LET r == submitSync(room, heap[ref], playerId, w, now, LocalVerdict(w))
                     IN /\ rooms' = [rooms EXCEPT ![code] = r.room]
                        /\ heap' = [heap EXCEPT ![ref] = r.roundState]
                        /\ last' = SubmitRet(code, playerId, w, ref, r)
                        /\ UNCHANGED <<roundStates, dictionary, apiValidatedWords,
                                       now, pending>>

\* submitWordAsync called by word:submit, apart from the callback it schedules.
SubmitWord(code, playerId, word) ==
  /\ rooms_submitWordAsync(code, playerId, word)
  /\ UNCHANGED timers

RemoveAt(seq, i) == SubSeq(seq, 1, i - 1) \o SubSeq(seq, i + 1, Len(seq))

\* The continuation of a suspended call: the fetch ended with `outcome`,
\* isValidWordAsync caches its verdict, and submitWordAsync runs to its return
\* on the RoomState and RoundState objects it looked up on entry.
ResumeSubmit(i, outcome) ==
  /\ i \in 1..Len(pending)
  /\ LET e == pending[i]
         w == e.word
         valid == FetchVerdict(w, outcome)
         room == IF e.room.live THEN rooms[e.code] ELSE e.room.room
         r == IF valid THEN submitClassic(room, heap[e.round], e.playerId, w)
              ELSE Rejected(room, heap[e.round], "not_in_dictionary")
     IN /\ apiValidatedWords' =
             IF outcome = "error" /\ ~valid THEN apiValidatedWords
             ELSE Put(apiValidatedWords, w, valid)
        /\ dictionary' = IF valid THEN dictionary \cup {w} ELSE dictionary
        /\ rooms' = IF e.room.live THEN [rooms EXCEPT ![e.code] = r.room] ELSE rooms
        /\ pending' = RemoveAt(pending, i)
        /\ heap' = Collect([heap EXCEPT ![e.round] = r.roundState], roundStates, pending')
        /\ last' = SubmitRet(e.code, e.playerId, w, e.round, r)
        /\ UNCHANGED <<roundStates, now>>
  /\ UNCHANGED <<calls, timers>>

(***************************************************************************)
(* Inputs                                                                  *)
(***************************************************************************)
RoomCodes == {"ABC234"}
PlayerIds == {"p1", "p2", "p3"}
Members == {"p1", "p2"}
N_Ann == <<"A","n","n">>
N_Bob == <<"B","o","b">>
N_bob == <<"b","o","b">>
N_BobPad == <<"B","o","b"," ">>

\* The lobby that createRoom by Ann, joinRoom by Bob and the host's
\* updateSettings({rounds: 2, roundSeconds: 10, gameMode}) leave behind.
GameRoom(gameMode) ==
  updateSettings(joinRoom(NewRoom("ABC234", N_Ann, "p1"), N_Bob, "p2").room, "p1",
                 [rounds |-> 2, roundSeconds |-> 10, gameMode |-> gameMode]).room

InitWith(modes) ==
  /\ \E gameMode \in modes : rooms = [c \in {"ABC234"} |-> GameRoom(gameMode)]
  /\ roundStates = EmptyMap
  /\ heap = EmptyMap
  /\ dictionary = InitialDictionary
  /\ apiValidatedWords = EmptyMap
  /\ now = 0
  /\ pending = <<>>
  /\ timers = <<>>
  /\ last = Ret("init", Undefined, Undefined, "ok")
  /\ calls = [submits |-> 0, rounds |-> 0]

(***************************************************************************)
(* SpecLifecycle: one room, any caller; settings, connection and phase     *)
(* changes around a classic game in which Bob can score "letter".          *)
(***************************************************************************)
LifecycleUpdates == { [minLen |-> 9], [rounds |-> 0, roundSeconds |-> 200],
                      [gameMode |-> "guess", fullBonusEnabled |-> FALSE] }

InitLifecycle == InitWith({"classic"})

NextLifecycle ==
  \/ \E code \in RoomCodes, c \in BOOLEAN : SetPlayerConnected(code, "p2", c)
  \/ \E code \in RoomCodes, p \in PlayerIds, u \in LifecycleUpdates : UpdateSettings(code, p, u)
  \/ \E code \in RoomCodes, p \in PlayerIds : StartGame(code, p)
  \/ \E code \in RoomCodes : SubmitWord(code, "p2", W_letter)
  \/ \E code \in RoomCodes : EndRound(code)
  \/ \E code \in RoomCodes : NextRound(code)
  \/ \E code \in RoomCodes : PlayAgain(code)

SpecLifecycle == InitLifecycle /\ [][NextLifecycle]_vars

(***************************************************************************)
(* SpecRace: concurrent classic-mode submissions of one room; every call   *)
(* that needs the external lookup suspends and resumes in any order, while *)
(* rounds are started, ended and replaced.                                 *)
(***************************************************************************)

InitRace == InitWith({"classic"})

NextRace ==
  \/ \E code \in RoomCodes : StartGame(code, "p1")
  \/ \E code \in RoomCodes, p \in Members, w \in {W_letter, Raw_Let, W_let, W_player} :
       SubmitWord(code, p, w)
  \/ \E i \in 1..MaxPending, o \in FetchOutcomes : ResumeSubmit(i, o)
  \/ \E code \in RoomCodes : EndRound(code)
  \/ \E code \in RoomCodes : NextRound(code)
  \/ \E code \in RoomCodes : PlayAgain(code)

SpecRace == InitRace /\ [][NextRace]_vars

(***************************************************************************)
(* SpecModes: submissions in each of the four game modes against the       *)
(* clock.                                                                  *)
(***************************************************************************)

InitModes == InitWith({"classic", "guess", "scramble", "teaser"})

NextModes ==
  \/ \E code \in RoomCodes : StartGame(code, "p1")
  \/ \E code \in RoomCodes, p \in Members, w \in {W_letter, W_player, W_keyboard, W_le} :
       SubmitWord(code, p, w)
  \/ \E i \in 1..MaxPending, o \in FetchOutcomes : ResumeSubmit(i, o)
  \/ \E code \in RoomCodes : EndRound(code)
  \/ \E code \in RoomCodes : PlayAgain(code)
  \/ \E dt \in {29500, 30500} : Tick(dt)

SpecModes == InitModes /\ [][NextModes]_vars

(***************************************************************************)
(* SpecLobby: membership and lifecycle of a room, from the empty server.   *)
(***************************************************************************)
InitLobby ==
  /\ rooms = EmptyMap
  /\ roundStates = EmptyMap
  /\ heap = EmptyMap
  /\ dictionary = InitialDictionary
  /\ apiValidatedWords = EmptyMap
  /\ now = 0
  /\ pending = <<>>
  /\ timers = <<>>
  /\ last = Ret("init", Undefined, Undefined, "ok")
  /\ calls = [submits |-> 0, rounds |-> 0]

\* createRoom and joinRoom requests: <<display name, player id>>.
CreateInputs == { <<N_Ann, "p1">> }
JoinInputs == { <<N_Bob, "p2">>, <<N_bob, "p3">>, <<N_Ann, "p2">>, <<N_BobPad, "p3">> }

NextLobby ==
  \/ \E code \in RoomCodes, in \in CreateInputs : CreateRoom(code, in[1], in[2])
  \/ \E code \in RoomCodes, in \in JoinInputs : JoinRoom(code, in[1], in[2])
  \/ \E code \in RoomCodes, p \in PlayerIds, c \in BOOLEAN : SetPlayerConnected(code, p, c)
  \/ \E code \in RoomCodes, p \in PlayerIds : RemovePlayer(code, p)
  \/ \E code \in RoomCodes, p \in PlayerIds, q \in PlayerIds : TransferHost(code, p, q)
  \/ \E code \in RoomCodes, p \in PlayerIds : StartGame(code, p)
  \/ \E code \in RoomCodes : PlayAgain(code)

SpecLobby == InitLobby /\ [][NextLobby]_vars

(***************************************************************************)
(* SpecSettings: updateSettings with integers below, inside and above each *)
(* field's range, by the host and by another member.                       *)
(***************************************************************************)
SettingsInputs ==
  {[rounds |-> r] : r \in {-5, 0, 1, 12, 20, 21}}
  \cup {[roundSeconds |-> t] : t \in {0, 29, 30, 90, 180, 181}}
  \cup {[minLen |-> m] : m \in {-1, 1, 2, 5, 7, 8}}
  \cup {[rounds |-> 25, minLen |-> 0],
        [rounds |-> 3, roundSeconds |-> 1000, minLen |-> 4,
         fullBonusEnabled |-> FALSE, gameMode |-> "guess"]}

InitSettings == InitWith({"classic"})

NextSettings ==
  \/ \E code \in RoomCodes, p \in Members, u \in SettingsInputs : UpdateSettings(code, p, u)
  \/ \E code \in RoomCodes, p \in Members, q \in Members : TransferHost(code, p, q)

SpecSettings == InitSettings /\ [][NextSettings]_vars

(***************************************************************************)
(* SpecFull: a lobby one or two players short of the limit of ten; players *)
(* join, reconnect and leave, and the host starts and resets the game.     *)
(***************************************************************************)
N_Cy == <<"C","y">>
CrowdIds == <<"q2", "q3", "q4", "q5", "q6", "q7", "q8", "q9">>
CrowdDigits == <<"2", "3", "4", "5", "6", "7", "8", "9">>
CrowdNames == [i \in 1..Len(CrowdIds) |-> <<"P", CrowdDigits[i]>>]

\* The lobby after createRoom by Ann and the first n joins of the crowd.
RECURSIVE Crowd(_)
Crowd(n) ==
  IF n = 0 THEN NewRoom("ABC234", N_Ann, "p1")
  ELSE joinRoom(Crowd(n - 1), CrowdNames[n], CrowdIds[n]).room

InitFull ==
  /\ \E n \in {7, 8} : rooms = [c \in {"ABC234"} |-> Crowd(n)]
  /\ roundStates = EmptyMap
  /\ heap = EmptyMap
  /\ dictionary = InitialDictionary
  /\ apiValidatedWords = EmptyMap
  /\ now = 0
  /\ pending = <<>>
  /\ timers = <<>>
  /\ last = Ret("init", Undefined, Undefined, "ok")
  /\ calls = [submits |-> 0, rounds |-> 0]

FullCodes == {"ABC234", "ZZZ999"}
FullJoinInputs == { <<N_Bob, "q10">>, <<N_Cy, "q11">>, <<CrowdNames[2], "q12">> }

NextFull ==
  \/ \E code \in FullCodes, in \in FullJoinInputs :
        JoinRoomUpTo(code, in[1], in[2], MaxRoomPlayers + 1)
  \/ \E code \in RoomCodes, p \in {"q8", "q10"} : RemovePlayer(code, p)
  \/ \E code \in RoomCodes : StartGame(code, "p1")
  \/ \E code \in RoomCodes : PlayAgain(code)

SpecFull == InitFull /\ [][NextFull]_vars

(***************************************************************************)
(* SpecReady: ready flags and the host role in a lobby.                    *)
(***************************************************************************)
ReadyJoinInputs == { <<N_Bob, "p2">>, <<N_Cy, "p3">> }

NextReady ==
  \/ \E code \in RoomCodes, in \in CreateInputs : CreateRoom(code, in[1], in[2])
  \/ \E code \in RoomCodes, in \in ReadyJoinInputs : JoinRoom(code, in[1], in[2])
  \/ \E code \in RoomCodes, p \in PlayerIds : TogglePlayerReady(code, p)
  \/ \E code \in RoomCodes, p \in PlayerIds : RemovePlayer(code, p)
  \/ \E code \in RoomCodes, p \in PlayerIds, q \in PlayerIds : TransferHost(code, p, q)

SpecReady == InitLobby /\ [][NextReady]_vars

(***************************************************************************)
(* SpecPower: a classic game in which "letters" earns a burn; Bob joined   *)
(* as "Bob " and, in one of the two lobbies, reconnected under a new id.   *)
(***************************************************************************)
PowerLobbies ==
  LET base == joinRoom(NewRoom("ABC234", N_Ann, "p1"), N_BobPad, "p3").room
  IN { joinRoom(base, N_Cy, "p2").room, joinRoom(base, N_Bob, "p2").room }
\* words.txt holds "letters" as well.
PowerDictionary == InitialDictionary \cup {W_letters}
PowerPlayers == {"p1", "p3"}

InitPower ==
  /\ \E room \in PowerLobbies : rooms = [c \in {"ABC234"} |-> room]
  /\ roundStates = EmptyMap
  /\ heap = EmptyMap
  /\ dictionary = PowerDictionary
  /\ apiValidatedWords = EmptyMap
  /\ now = 0
  /\ pending = <<>>
  /\ timers = <<>>
  /\ last = Ret("init", Undefined, Undefined, "ok")
  /\ calls = [submits |-> 0, rounds |-> 0]

NextPower ==
  \/ \E code \in RoomCodes : StartGame(code, "p1")
  \/ \E code \in RoomCodes, p \in PowerPlayers, w \in {W_letters, W_letter} : SubmitWord(code, p, w)
  \/ \E code \in RoomCodes, p \in PowerPlayers, t \in {"freeze", "burn"} : UsePowerUp(code, p, t)
  \/ \E code \in RoomCodes, c \in BOOLEAN : SetPlayerConnected(code, "p1", c)
  \/ \E code \in RoomCodes : PlayAgain(code)

SpecPower == InitPower /\ [][NextPower]_vars

(***************************************************************************)
(* SpecScoring: the last round of a classic game on "letters" whose first  *)
(* submissions are already in; further words arrive, the round and the     *)
(* game end, and the room plays again.                                     *)
(***************************************************************************)
W_re == <<"r","e">>
W_tree == <<"t","r","e","e">>
W_reset == <<"r","e","s","e","t">>
W_settle == <<"s","e","t","t","l","e">>
W_settler == <<"s","e","t","t","l","e","r">>
\* words.txt holds these words as well.
ScoringDictionary ==
  InitialDictionary \cup {W_re, W_let, W_tree, W_reset, W_settle, W_letters, W_settler}

\* Ann, Bob and Cy; and Ann with Bob who joined as "Bob " and reconnected as p2.
Lobby_Three ==
  joinRoom(joinRoom(NewRoom("ABC234", N_Ann, "p1"), N_Bob, "p2").room, N_Cy, "p3").room
Lobby_Rejoined ==
  joinRoom(joinRoom(NewRoom("ABC234", N_Ann, "p1"), N_BobPad, "p3").room, N_Bob, "p2").room

\* A lobby and the submissions <<playerId, word>> already made in its round.
ScoringStarts ==
  { <<Lobby_Three, <<>>>>,
    <<Lobby_Three, << <<"p1", W_let>>, <<"p1", W_tree>>, <<"p1", W_reset>>,
                      <<"p1", W_letter>> >> >>,
    <<Lobby_Three, << <<"p1", W_let>>, <<"p2", W_letter>>, <<"p3", W_settle>> >> >>,
    <<Lobby_Rejoined, <<>>>> }
ScoringSettings == { [rounds |-> 1, minLen |-> 2],
                     [rounds |-> 1, fullBonusEnabled |-> FALSE] }
ScoringSubmits == { <<"p1", W_re>>, <<"p1", W_let>>, <<"p1", W_settle>>,
                    <<"p1", W_settler>>, <<"p1", W_letters>>, <<"p1", W_player>>,
                    <<"p2", W_letters>>, <<"p2", W_tree>> }

\* The submissions `plays`, each a call of submitWordAsync that found its word
\* in the dictionary, made one after the other at time 0.
RECURSIVE Played(_, _, _)
Played(room, roundState, plays) ==
  IF plays = <<>> THEN [room |-> room, roundState |-> roundState]
  ELSE LET r == submitSync(room, roundState, plays[1][1], plays[1][2], 0, "true")
       IN Played(r.room, r.roundState, Tail(plays))

InitScoring ==
  /\ \E start \in ScoringStarts, partial \in ScoringSettings :
       LET lobby == updateSettings(start[1], "p1", partial).room
           room == startGame(lobby, "p1").room
           played == Played(room, createRound(room, 0, W_letters, 0), start[2])
       IN /\ rooms = [c \in {"ABC234"} |-> played.room]
          /\ heap = [r \in {1} |-> played.roundState]
  /\ roundStates = [c \in {"ABC234"} |-> 1]
  /\ dictionary = ScoringDictionary
  /\ apiValidatedWords = EmptyMap
  /\ now = 0
  /\ pending = <<>>
  /\ timers = <<>>
  /\ last = Ret("init", Undefined, Undefined, "ok")
  /\ calls = [submits |-> 0, rounds |-> 1]

NextScoring ==
  \/ \E code \in RoomCodes, sub \in ScoringSubmits : SubmitWord(code, sub[1], sub[2])
  \/ \E code \in RoomCodes : EndRound(code)
  \/ \E code \in RoomCodes : NextRound(code)
  \/ \E code \in RoomCodes : PlayAgain(code)
  \/ \E code \in RoomCodes : StartGame(code, "p1")

SpecScoring == InitScoring /\ [][NextScoring]_vars

(***************************************************************************)
(* SpecCodes: rooms are created under the codes generateRoomCode returns,  *)
(* joined and left; a room code is the sequence of its characters.         *)
(***************************************************************************)
\* rooms.ts generateRoomCode: `chars`.
RoomCodeChars == <<"A","B","C","D","E","F","G","H","J","K","L","M","N","P","Q","R",
                   "S","T","U","V","W","X","Y","Z","2","3","4","5","6","7","8","9">>
CodeLength == 6
MaxAttempts == 100

\* Two of the codes the random draws of one attempt can spell.
DrawnCodes ==
  {c \in { <<"A","B","C","2","3","4">>, <<"Z","Z","Z","9","9","9">> } :
     /\ Len(c) = CodeLength
     /\ \A i \in 1..Len(c) : \E k \in 1..Len(RoomCodeChars) : RoomCodeChars[k] = c[i]}
\* Date.now() modulo 36^4 at two moments: the timestamp's last four base-36
\* digits are "bc23" at the first and "001b" at the second.
ClockReadings == {528843, 47}

ToUpperChar(c) ==
  IF \E i \in 1..26 : LowerChars[i] = c
  THEN UpperChars[CHOOSE i \in 1..26 : LowerChars[i] = c]
  ELSE c

\* Date.now().toString(36).slice(-4).toUpperCase() for a timestamp that is t
\* modulo 36^4 (a timestamp has eight base-36 digits).
TimestampTail(t) ==
  LET digits == <<"0","1","2","3","4","5","6","7","8","9">> \o LowerChars
  IN [k \in 1..4 |-> ToUpperChar(digits[((t \div (36 ^ (4 - k))) % 36) + 1])]

\* rooms.ts generateRoomCode, lines 19-25: the fallback codes, for two of the
\* characters each of its random draws can return.
FallbackCodes(t) ==
  {<<c1>> \o TimestampTail(t) \o <<c2>> :
     c1 \in {RoomCodeChars[1], RoomCodeChars[24]}, c2 \in {RoomCodeChars[27]}}

\* rooms.ts generateRoomCode, for the rooms map holding the codes `live`: an
\* attempt returns its code when no room has it, and it is made when every
\* attempt before it drew the code of a live room; after MaxAttempts such
\* attempts the next one returns a fallback code, which the loop does not look
\* up in the rooms map.
generateRoomCode(live, t) ==
  LET colliding == DrawnCodes \cap live
      exhausted == \E draws \in [1..MaxAttempts -> colliding] : TRUE
  IN (DrawnCodes \ live) \cup (IF exhausted THEN FallbackCodes(t) ELSE {})

\* rooms.ts createRoom with the code generateRoomCode returns at clock reading t.
CreateRoomGenerated(hostName, playerId, t) ==
  /\ \E code \in generateRoomCode(DOMAIN rooms, t) :
       /\ rooms' = Put(rooms, code, NewRoom(code, hostName, playerId))
       /\ last' = Ret("createRoom", code, playerId, "ok")
  /\ UNCHANGED <<roundStates, heap, dictionary, apiValidatedWords, now, pending>>
  /\ UNCHANGED <<calls, timers>>

NextCodes ==
  \/ \E host \in {<<N_Ann, "p1">>, <<N_Bob, "p2">>}, t \in ClockReadings :
       CreateRoomGenerated(host[1], host[2], t)
  \/ \E code \in DrawnCodes : JoinRoom(code, N_Cy, "p3")
  \/ \E t \in ClockReadings :
       \E code \in DrawnCodes \cup FallbackCodes(t), p \in PlayerIds : RemovePlayer(code, p)

SpecCodes == InitLobby /\ [][NextCodes]_vars

(***************************************************************************)
(* SpecLetters: canBuildFromLetters is called on short words in mixed case *)
(* while dictionary words arrive in the classic rounds of one room.        *)
(***************************************************************************)
\* The arguments <<word, sourceWord>> of the calls: every word of at most two
\* of the letters a, p, P, l and four longer ones, against three source words.
LetterInputs ==
  (UNION {[1..n -> {"a", "p", "P", "l"}] : n \in 0..2}
     \cup {<<"p","P","p">>, <<"P","A","L">>, <<"a","p","l","e">>,
           <<"a","p","p","p","l","e">>})
  \X {<<"a","p","p","l","e">>, <<"A","p","P","L","e">>, <<"p","a">>}

\* words.ts canBuildFromLetters, called with `word` and `sourceWord`.
CanBuildFromLetters(word, sourceWord) ==
  /\ last' = [Ret("canBuildFromLetters", Undefined, Undefined,
                  IF canBuildFromLetters(word, sourceWord) THEN "true" ELSE "false")
                EXCEPT !.word = word, !.source = sourceWord]
  /\ UNCHANGED <<rooms, roundStates, heap, dictionary, apiValidatedWords, now, pending>>
  /\ UNCHANGED <<calls, timers>>

NextLetters ==
  \/ \E input \in LetterInputs : CanBuildFromLetters(input[1], input[2])
  \/ \E code \in RoomCodes : StartGame(code, "p1")
  \/ \E code \in RoomCodes, w \in {W_letter, W_player, W_win, W_le} :
       SubmitWord(code, "p2", w)

SpecLetters == InitLifecycle /\ [][NextLetters]_vars

(***************************************************************************)
(* SpecTimers: the socket handlers of index.ts with the callbacks they     *)
(* hand to setTimeout and setInterval, around a guess or scramble game of  *)
(* two rounds.  Rounds are started by countdown callbacks only, as in the  *)
(* server; round:end and game:playAgain act at once.                       *)
(***************************************************************************)
MaxTimers == 2
SolveDelay == 1500
CountdownDelay == 3000

\* A callback waiting in the event loop: the rooms call it makes and the time
\* it is due.  `rounds` remembers how many rounds had been created when it was
\* scheduled; the code keeps no such record.
Timer(op, code, playerId, delay) ==
  [op |-> op, code |-> code, pid |-> playerId, due |-> now + delay,
   rounds |-> calls.rounds]

\* The clock is advanced to the moments at which a handler or a callback can
\* act: by SolveDelay while a callback is waiting, by a whole round otherwise.
TimerTicks == {SolveDelay, 30000}
Wait(dt) ==
  /\ (dt = SolveDelay) = (timers # <<>>)
  /\ Tick(dt)

\* The callbacks that start a round when they run.
Countdowns == {i \in 1..Len(timers) : timers[i].op \in {"startGame", "nextRound"}}

\* index.ts game:start: the countdown, whose last callback calls startGame.
OnGameStart(code, playerId) ==
  /\ code \in DOMAIN rooms
  /\ Len(timers) < MaxTimers
  /\ now + CountdownDelay <= MaxNow
  /\ calls.rounds + Cardinality(Countdowns) < MaxRoundsCreated
  /\ timers' = Append(timers, Timer("startGame", code, playerId, CountdownDelay))
  /\ last' = Ret("game:start", code, playerId, "countdown")
  /\ UNCHANGED <<rooms, roundStates, heap, dictionary, apiValidatedWords, now,
                 pending, calls>>

\* index.ts round:next: the countdown interval, whose last run calls nextRound.
OnRoundNext(code) ==
  /\ code \in DOMAIN rooms
  /\ Len(timers) < MaxTimers
  /\ now + CountdownDelay <= MaxNow
  /\ calls.rounds + Cardinality(Countdowns) < MaxRoundsCreated
  /\ timers' = Append(timers, Timer("nextRound", code, Undefined, CountdownDelay))
  /\ last' = Ret("round:next", code, Undefined, "countdown")
  /\ UNCHANGED <<rooms, roundStates, heap, dictionary, apiValidatedWords, now,
                 pending, calls>>

\* index.ts word:submit: submitWordAsync, and on a solved round the delayed
\* endRound.
OnWordSubmit(code, playerId, word) ==
  /\ rooms_submitWordAsync(code, playerId, word)
  /\ IF last'.solved
     THEN /\ Len(timers) < MaxTimers
          /\ now + SolveDelay <= MaxNow
          /\ timers' = Append(timers, Timer("endRound", code, playerId, SolveDelay))
     ELSE UNCHANGED timers

\* The event loop runs a callback that is due.
TimerFires(i) ==
  /\ i \in 1..Len(timers)
  /\ now >= timers[i].due
  /\ \/ timers[i].op = "startGame" /\ rooms_startGame(timers[i].code, timers[i].pid)
     \/ timers[i].op = "nextRound" /\ rooms_nextRound(timers[i].code)
     \/ timers[i].op = "endRound" /\ rooms_endRound(timers[i].code)
  /\ timers' = RemoveAt(timers, i)

\* A lobby, its game mode, and whether the first round, on "letter", has just
\* been started by a game:start countdown.  Lobby_Rejoined is Ann with a Bob
\* who reconnected as p2.
TimerStarts ==
  { <<GameRoom("guess"), "guess", FALSE>>, <<GameRoom("guess"), "scramble", TRUE>>,
    <<Lobby_Rejoined, "guess", TRUE>> }

InitTimers ==
  /\ \E start \in TimerStarts :
       LET set == updateSettings(start[1], "p1", [rounds |-> 2, gameMode |-> start[2]]).room
           room == startGame(set, "p1").room
       IN IF start[3]
          THEN /\ rooms = [c \in {"ABC234"} |-> room]
               /\ roundStates = [c \in {"ABC234"} |-> 1]
               /\ heap = [r \in {1} |-> createRound(room, 0, W_letter, 0)]
               /\ calls = [submits |-> 0, rounds |-> 1]
          ELSE /\ rooms = [c \in {"ABC234"} |-> set]
               /\ roundStates = EmptyMap
               /\ heap = EmptyMap
               /\ calls = [submits |-> 0, rounds |-> 0]
  /\ dictionary = InitialDictionary
  /\ apiValidatedWords = EmptyMap
  /\ now = 0
  /\ pending = <<>>
  /\ timers = <<>>
  /\ last = Ret("init", Undefined, Undefined, "ok")

NextTimers ==
  \/ \E code \in RoomCodes : OnGameStart(code, "p1")
  \/ \E code \in RoomCodes, p \in Members : OnWordSubmit(code, p, W_letter)
  \/ \E code \in RoomCodes : EndRound(code)
  \/ \E code \in RoomCodes : OnRoundNext(code)
  \/ \E code \in RoomCodes : PlayAgain(code)
  \/ \E i \in 1..MaxTimers : TimerFires(i)
  \/ \E dt \in TimerTicks : Wait(dt)

SpecTimers == InitTimers /\ [][NextTimers]_vars

\* The event loop runs every due callback and the clock goes on; no client is
\* bound to send anything.
FairTimers ==
  /\ SpecTimers
  /\ WF_vars(\E i \in 1..MaxTimers : TimerFires(i))
  /\ WF_vars(\E dt \in TimerTicks : Wait(dt))

(***************************************************************************)
(* Properties                                                              *)
(***************************************************************************)
HostFlags(room) == {i \in 1..Len(room.players) : room.players[i].isHost}
KeyedPlayers(room, playerId) ==
  {i \in 1..Len(room.players) : room.players[i].key = playerId}
Connected(room) == {i \in 1..Len(room.players) : room.players[i].connected}
Scores(room) == [i \in 1..Len(room.players) |-> room.players[i].score]
PowerUps(room) == [i \in 1..Len(room.players) |-> room.players[i].powerUps]
\* The step is the arrival of a submitWordAsync call.
Arrived == calls'.submits # calls.submits

\* C1: every live non-empty room has exactly one player with isHost = true, and
\* hostPlayerId is a key of the player map whose entry is that player.
C1_SingleHost ==
  \A code \in DOMAIN rooms :
    LET room == rooms[code]
    IN room.players # <<>> =>
         /\ Cardinality(HostFlags(room)) = 1
         /\ \E i \in HostFlags(room) : room.players[i].key = room.hostPlayerId

\* C2: the phase changes only lobby->round by startGame, round->round_results
\* or game_over by endRound, round_results->round (or game_over, after the last
\* round) by nextRound, game_over->lobby by playAgain; one of these four calls
\* made in another phase changes neither phase nor scores nor round state.
C2_From(op) ==
  CASE op = "startGame" -> "lobby"
    [] op = "endRound" -> "round"
    [] op = "nextRound" -> "round_results"
    [] op = "playAgain" -> "game_over"
    [] OTHER -> "none"
C2_To(op) ==
  CASE op = "startGame" -> {"round"}
    [] op = "endRound" -> {"round_results", "game_over"}
    [] op = "nextRound" -> {"round", "game_over"}
    [] op = "playAgain" -> {"lobby"}
    [] OTHER -> {}
C2_SequentialPhases ==
  [][\A code \in DOMAIN rooms \cap DOMAIN rooms' :
       LET p == rooms[code].phase
           q == rooms'[code].phase
       IN /\ p # q => C2_From(last'.op) = p /\ q \in C2_To(last'.op)
          /\ (last'.op \in {"startGame", "endRound", "nextRound", "playAgain"}
                /\ C2_From(last'.op) # p)
             => /\ p = q
                /\ Scores(rooms'[code]) = Scores(rooms[code])
                /\ roundStates' = roundStates
                /\ heap' = heap]_vars

\* C3: in classic mode, once a normalized word has been accepted in a round,
\* every later submission of that word arriving in that running round returns
\* already_used and changes no score, submission list or power-up counter.
C3_AlreadyUsed ==
  [][(/\ Arrived
      /\ EntryCheck(last'.code) = "pass"
      /\ heap[roundStates[last'.code]].gameMode = "classic"
      /\ last'.word \in heap[roundStates[last'.code]].usedWordsGlobal)
     => /\ last'.res = "already_used"
        /\ rooms' = rooms
        /\ heap' = heap]_vars

\* The words of the list in points, each with its full-word bonus.
RECURSIVE SumPoints(_, _)
SumPoints(words, sourceWord) ==
  IF words = <<>> THEN 0
  ELSE calculatePoints(Len(Head(words)))
       + calculateFullBonus(Head(words), sourceWord, TRUE)
       + SumPoints(Tail(words), sourceWord)

\* C4: under every interleaving of in-flight classic submissions (suspended at
\* the dictionary lookup, resumed in any order), a normalized word is accepted
\* at most once per round: it is in at most one player's submission list, at
\* most once, the listed words are exactly the used words, and each player's
\* round score is the sum of the points of the words listed for that player
\* (the rooms of SpecRace keep the full-word bonus enabled).
C4_AcceptedOnce ==
  \A ref \in DOMAIN heap :
    LET rs == heap[ref]
        subs == rs.submissionsByPlayerId
    IN rs.gameMode = "classic" =>
         /\ \A k1 \in DOMAIN subs, k2 \in DOMAIN subs :
              \A i1 \in 1..Len(subs[k1]), i2 \in 1..Len(subs[k2]) :
                subs[k1][i1] = subs[k2][i2] => k1 = k2 /\ i1 = i2
         /\ rs.usedWordsGlobal =
              UNION {{subs[k][i] : i \in 1..Len(subs[k])} : k \in DOMAIN subs}
         /\ \A k \in DOMAIN subs :
              Get(rs.roundScoresByPlayerId, k, 0) = SumPoints(subs[k], rs.sourceWord)

\* A call is suspended at the lookup of a word that another player's call has
\* just claimed in the same round.
C4_Witness ==
  \E i \in 1..Len(pending) :
    /\ pending[i].word \in heap[pending[i].round].usedWordsGlobal
    /\ last.op = "submitWord" /\ last.res = "ok"
    /\ last.word = pending[i].word
    /\ last.round = pending[i].round
    /\ last.pid # pending[i].playerId

\* The step completes a submitWordAsync call (it returns in this step).
Completed ==
  \/ Arrived /\ last'.res # "awaiting"
  \/ Len(pending') < Len(pending)

\* C5: in every mode, a submission arriving while the room's phase is not
\* round, or at or after endsAt, returns round_ended whatever the word, and
\* leaves scores, used words, lists, solvedBy and power-ups unchanged.
C5_RoundEnded ==
  [][(/\ Arrived
      /\ last'.code \in DOMAIN rooms
      /\ \/ rooms[last'.code].phase # "round"
         \/ /\ last'.code \in DOMAIN roundStates
            /\ now >= heap[roundStates[last'.code]].endsAt)
     => /\ last'.res = "round_ended"
        /\ rooms' = rooms
        /\ heap' = heap]_vars

\* C6: in guess, scramble and teaser rounds the first submission equal to the
\* round's answer sets solvedBy to the submitter; every later submission of the
\* answer is rejected already_solved, awards no points and changes no score.
C6_FirstSolver ==
  [][(/\ Completed
      /\ last'.res \notin {"room_not_found", "round_ended"}
      /\ last'.round \in DOMAIN heap
      /\ heap[last'.round].gameMode \in {"guess", "scramble", "teaser"}
      /\ last'.word = heap[last'.round].correctAnswer)
     => IF heap[last'.round].solvedBy = Undefined
        THEN /\ last'.res = "ok"
             /\ heap'[last'.round].solvedBy = last'.pid
        ELSE /\ last'.res = "already_solved"
             /\ last'.points = 0
             /\ \A code \in DOMAIN rooms : Scores(rooms'[code]) = Scores(rooms[code])]_vars

\* C7: in a teaser round the only accepted submission is the riddle's answer,
\* which returns solved and 10 + max(1, floor(seconds remaining)) points; any
\* other word is rejected wrong_guess and changes no state.
C7_TeaserExactMatch ==
  [][(/\ Completed
      /\ last'.res \notin {"room_not_found", "round_ended"}
      /\ last'.round \in DOMAIN heap
      /\ heap[last'.round].gameMode = "teaser"
      /\ heap[last'.round].solvedBy = Undefined)
     => IF last'.word = heap[last'.round].correctAnswer
        THEN /\ last'.res = "ok"
             /\ last'.solved
             /\ last'.points =
                  10 + Max(1, (heap[last'.round].endsAt - now) \div 1000)
        ELSE /\ last'.res = "wrong_guess"
             /\ rooms' = rooms
             /\ heap'[last'.round] = heap[last'.round]]_vars

\* C8: startGame fails when the caller is not the host or fewer than 2 players
\* are connected, and then changes neither phase nor scores nor round state;
\* called by the host with 2 to 10 connected players it succeeds, every score
\* is 0, the phase is round and the room's round has index 0.
C8_StartGame ==
  [][(last'.op = "startGame" /\ last'.code \in DOMAIN rooms)
     => LET code == last'.code
            room == rooms[code]
            n == Cardinality(Connected(room))
        IN /\ (last'.pid # room.hostPlayerId \/ n < 2)
              => /\ last'.res # "ok"
                 /\ rooms' = rooms
                 /\ roundStates' = roundStates
                 /\ heap' = heap
           /\ (last'.pid = room.hostPlayerId /\ n >= 2 /\ n <= 10)
              => /\ last'.res = "ok"
                 /\ \A i \in 1..Len(rooms'[code].players) :
                      rooms'[code].players[i].score = 0
                 /\ rooms'[code].phase = "round"
                 /\ code \in DOMAIN roundStates'
                 /\ heap'[roundStates'[code]].roundIndex = 0]_vars

\* The second game of a room was started after a word had been submitted.
C8_Witness ==
  /\ last.op = "startGame" /\ last.res = "ok"
  /\ calls.rounds = 2 /\ calls.submits >= 1
  /\ rooms[last.code].phase = "round"
  /\ \A i \in 1..Len(rooms[last.code].players) : rooms[last.code].players[i].score = 0

\* C9: the settings never change while the phase is round, round_results or
\* game_over: updateSettings, even by the host, has no effect outside lobby.
C9_SettingsFrozen ==
  [][\A code \in DOMAIN rooms \cap DOMAIN rooms' :
       rooms[code].phase \in {"round", "round_results", "game_over"}
         => rooms'[code].settings = rooms[code].settings]_vars

\* C10: updateSettings called by a player who is not the room's host, or not
\* in the room, returns null and leaves every settings field unchanged.
C10_NonHostIgnored ==
  [][(/\ last'.op = "updateSettings"
      /\ last'.code \in DOMAIN rooms
      /\ last'.pid # rooms[last'.code].hostPlayerId)
     => /\ last'.res = "null"
        /\ rooms'[last'.code].settings = rooms[last'.code].settings]_vars

\* Bob, a member who is not the host, had an update refused.
C10_Witness ==
  /\ last.op = "updateSettings" /\ last.res = "null" /\ last.pid = "p2"
  /\ last.code \in DOMAIN rooms
  /\ last.pid # rooms[last.code].hostPlayerId
  /\ KeyedPlayers(rooms[last.code], last.pid) # {}

\* The value the field has after an update that supplied x: x inside the
\* range, the nearer limit outside it.
InRange(lo, hi, x, v) ==
  /\ (x < lo => v = lo)
  /\ (x > hi => v = hi)
  /\ (lo <= x /\ x <= hi => v = x)

SettingsInRange(settings) ==
  /\ 1 <= settings.rounds /\ settings.rounds <= 20
  /\ 30 <= settings.roundSeconds /\ settings.roundSeconds <= 180
  /\ 2 <= settings.minLen /\ settings.minLen <= 7

\* C11: after any sequence of updateSettings calls with integer inputs the
\* settings satisfy 1 <= rounds <= 20, 30 <= roundSeconds <= 180 and
\* 2 <= minLen <= 7; an accepted update clamps each supplied field on its own
\* and a field absent from the partial update keeps its previous value.
C11_Clamped ==
  [][\A code \in DOMAIN rooms \cap DOMAIN rooms' :
       LET old == rooms[code].settings
           new == rooms'[code].settings
           u == last'.partial
       IN /\ SettingsInRange(new)
          /\ (last'.op = "updateSettings" /\ last'.code = code /\ last'.res = "settings")
             => /\ IF "rounds" \in DOMAIN u
                   THEN InRange(1, 20, u.rounds, new.rounds)
                   ELSE new.rounds = old.rounds
                /\ IF "roundSeconds" \in DOMAIN u
                   THEN InRange(30, 180, u.roundSeconds, new.roundSeconds)
                   ELSE new.roundSeconds = old.roundSeconds
                /\ IF "minLen" \in DOMAIN u
                   THEN InRange(2, 7, u.minLen, new.minLen)
                   ELSE new.minLen = old.minLen
                /\ IF "fullBonusEnabled" \in DOMAIN u
                   THEN new.fullBonusEnabled = u.fullBonusEnabled
                   ELSE new.fullBonusEnabled = old.fullBonusEnabled
                /\ IF "gameMode" \in DOMAIN u
                   THEN new.gameMode = u.gameMode
                   ELSE new.gameMode = old.gameMode]_vars

\* An update supplied rounds above the range and no minLen: rounds is 20 and
\* minLen keeps the value 7 an earlier update was clamped to.
C11_Witness ==
  /\ last.op = "updateSettings" /\ last.res = "settings"
  /\ DOMAIN last.partial = {"rounds"}
  /\ last.partial.rounds > 20
  /\ rooms[last.code].settings.rounds = 20
  /\ rooms[last.code].settings.minLen = 7
  /\ rooms[last.code].settings.roundSeconds = 30

\* C12: joinRoom returns an error and leaves the room unchanged when the room
\* does not exist, its phase is not lobby or it already has 10 players; no room
\* ever has more than 10 players and no player is added outside phase lobby.
C12_JoinRejected ==
  [][/\ last'.op = "joinRoom"
        => LET code == last'.code
           IN (\/ code \notin DOMAIN rooms
               \/ rooms[code].phase # "lobby"
               \/ Len(rooms[code].players) >= 10)
              => last'.res # "ok" /\ rooms' = rooms
     /\ \A code \in DOMAIN rooms' : Len(rooms'[code].players) <= 10
     /\ \A code \in DOMAIN rooms \cap DOMAIN rooms' :
          rooms[code].phase # "lobby"
            => {rooms'[code].players[i].key : i \in 1..Len(rooms'[code].players)}
               \subseteq {rooms[code].players[i].key : i \in 1..Len(rooms[code].players)}
    ]_vars

\* A join was refused by a lobby of ten players.
C12_Witness ==
  /\ last.op = "joinRoom" /\ last.res = "Room is full"
  /\ last.code \in DOMAIN rooms
  /\ Len(rooms[last.code].players) = 10
  /\ rooms[last.code].phase = "lobby"

\* C13: a joinRoom whose name matches an existing player's name ignoring case
\* is a reconnection (the player count does not grow, the player is connected
\* and keeps score, isHost and power-ups), so no two players of a room ever
\* share a display name ignoring case.
C13_UniqueNames ==
  [][\A code \in DOMAIN rooms' :
       LET after == rooms'[code].players
       IN /\ \A i \in 1..Len(after), j \in 1..Len(after) :
               toLowerCase(after[i].name) = toLowerCase(after[j].name) => i = j
          /\ (/\ last'.op = "joinRoom" /\ last'.code = code /\ last'.res = "ok"
              /\ code \in DOMAIN rooms
              /\ Len(after) = Len(rooms[code].players))
             => \E i \in 1..Len(after) :
                  LET was == rooms[code].players[i]
                  IN /\ after[i].connected
                     /\ after[i].score = was.score
                     /\ after[i].isHost = was.isHost
                     /\ after[i].powerUps = was.powerUps
                     /\ \A j \in 1..Len(after) : j # i => after[j] = rooms[code].players[j]
    ]_vars

C15_RoomLifetime ==
  [][/\ \A code \in DOMAIN rooms' : rooms'[code].players # <<>>
     /\ DOMAIN roundStates' \subseteq DOMAIN rooms'
     /\ \A code \in DOMAIN rooms :
          LET before == rooms[code].players
              leaves == /\ last'.op = "removePlayer" /\ last'.code = code
                        /\ \A i \in 1..Len(before) : before[i].key = last'.pid
          IN IF leaves
             THEN /\ code \notin DOMAIN rooms'
                  /\ code \notin DOMAIN roundStates'
                  /\ last'.res = "roomEmpty"
             ELSE /\ code \in DOMAIN rooms'
                  /\ last'.op = "removePlayer" => last'.res = "ok"]_vars

\* The last player left a room that had a round state, and both are gone.
C15_Witness ==
  /\ last.op = "removePlayer" /\ last.res = "roomEmpty"
  /\ last.round # 0
  /\ last.code \notin DOMAIN rooms
  /\ last.code \notin DOMAIN roundStates

\* C16: transferHost succeeds only if the caller is the current host and the
\* target is a connected member (and then it does succeed); on success the
\* target is the room's single host and hostPlayerId names it; on failure the
\* isHost flags and hostPlayerId are unchanged.
C16_TransferHost ==
  [][(last'.op = "transferHost" /\ last'.code \in DOMAIN rooms)
     => LET room == rooms[last'.code]
            after == rooms'[last'.code]
            callerIsHost == \E i \in KeyedPlayers(room, last'.pid) : room.players[i].isHost
            targetConnected ==
              \E i \in KeyedPlayers(room, last'.target) : room.players[i].connected
        IN /\ last'.res = "ok" <=> (callerIsHost /\ targetConnected)
           /\ last'.res = "ok"
              => /\ HostFlags(after) = KeyedPlayers(after, last'.target)
                 /\ Cardinality(HostFlags(after)) = 1
                 /\ after.hostPlayerId = last'.target
           /\ last'.res # "ok"
              => /\ after.hostPlayerId = room.hostPlayerId
                 /\ HostFlags(after) = HostFlags(room)
                 /\ Len(after.players) = Len(room.players)]_vars

\* The host role moved to another player, in a room of three.
C16_Witness ==
  /\ last.op = "transferHost" /\ last.res = "ok"
  /\ last.target # last.pid
  /\ last.code \in DOMAIN rooms
  /\ Len(rooms[last.code].players) = 3
  /\ rooms[last.code].hostPlayerId = last.target
  /\ \E i \in KeyedPlayers(rooms[last.code], last.pid) : ~rooms[last.code].players[i].isHost

\* C17: the host is always ready: whoever is host has isReady = true, also
\* after a promotion by removePlayer or a transferHost, and togglePlayerReady
\* called by the host returns null and changes nothing.
C17_HostReady ==
  [][/\ \A code \in DOMAIN rooms' :
          \A i \in HostFlags(rooms'[code]) : rooms'[code].players[i].isReady
     /\ (/\ last'.op = "togglePlayerReady"
         /\ last'.code \in DOMAIN rooms
         /\ \E i \in KeyedPlayers(rooms[last'.code], last'.pid) :
              rooms[last'.code].players[i].isHost)
        => last'.res = "null" /\ rooms' = rooms]_vars

\* min(s, ceil(s / 10)) for a score s >= 0.
BurnDebit(s) ==
  LET tenth == CHOOSE d \in 0..s : 10 * d >= s /\ \A e \in 0..s : 10 * e >= s => d <= e
  IN IF tenth < s THEN tenth ELSE s

\* C18: a successful burn debits exactly min(s, ceil(s/10)) points from its
\* target, s being the target's score before the burn; the target is a player
\* other than the caller, connected and with score > 0, and no other player's
\* score changes.
C18_Burn ==
  [][(/\ last'.op = "usePowerUp" /\ last'.type = "burn" /\ last'.res = "true"
      /\ last'.code \in DOMAIN rooms)
     => LET before == rooms[last'.code].players
            after == rooms'[last'.code].players
        IN \E i \in 1..Len(before) :
             /\ {j \in 1..Len(before) : after[j].score # before[j].score} = {i}
             /\ before[i].key # last'.pid
             /\ before[i].connected
             /\ before[i].score > 0
             /\ before[i].score - after[i].score = BurnDebit(before[i].score)
             /\ last'.points = BurnDebit(before[i].score)
             /\ last'.target = before[i].id]_vars

\* C19: every player's cumulative score is >= 0 and both power-up counters are
\* >= 0, after any sequence of submissions, burns, game starts and resets.
C19_NonNegative ==
  \A code \in DOMAIN rooms :
    \A i \in 1..Len(rooms[code].players) :
      /\ rooms[code].players[i].score >= 0
      /\ rooms[code].players[i].powerUps.freeze >= 0
      /\ rooms[code].players[i].powerUps.burn >= 0

\* A burn just took points from a player who keeps a positive score, and it
\* was the caller's last burn.
C19_Witness ==
  /\ last.op = "usePowerUp" /\ last.type = "burn" /\ last.res = "true"
  /\ last.points >= 1
  /\ last.code \in DOMAIN rooms
  /\ \E i \in KeyedPlayers(rooms[last.code], last.pid) :
       rooms[last.code].players[i].powerUps.burn = 0
  /\ \E i \in 1..Len(rooms[last.code].players) :
       /\ rooms[last.code].players[i].id = last.target
       /\ rooms[last.code].players[i].score > 0

\* C20: usePowerUp returns success = false exactly when the caller has no
\* power-up of the type or, for a burn, no other connected player has score > 0;
\* whenever it returns false the room is unchanged, in particular the caller's
\* counter is not decremented.
C20_FailedUse ==
  [][(last'.op = "usePowerUp" /\ last'.code \in DOMAIN rooms)
     => LET room == rooms[last'.code]
            hasPower == \E i \in KeyedPlayers(room, last'.pid) :
                           room.players[i].powerUps[last'.type] > 0
            hasTarget == \E i \in 1..Len(room.players) :
                            /\ room.players[i].key # last'.pid
                            /\ room.players[i].connected
                            /\ room.players[i].score > 0
        IN /\ last'.res = "false"
                <=> (~hasPower \/ (last'.type = "burn" /\ ~hasTarget))
           /\ last'.res = "false" => rooms' = rooms]_vars

\* C21: a game of rounds = N plays exactly the round indices 0..N-1: endRound
\* sets game_over exactly when the ending round has index N-1 and
\* round_results otherwise; nextRound creates round roundIndex+1 only if that
\* index is < N and otherwise sets game_over; whenever a round state exists,
\* 0 <= roundIndex < rounds.
C21_RoundIndices ==
  [][/\ (last'.op = "endRound" /\ last'.res # "null")
        => LET roundIndex == heap[roundStates[last'.code]].roundIndex
               N == rooms[last'.code].settings.rounds
           IN /\ rooms'[last'.code].phase = last'.res
              /\ last'.res = (IF roundIndex = N - 1 THEN "game_over" ELSE "round_results")
     /\ (last'.op = "nextRound" /\ last'.res # "null")
        => LET nextRoundIndex == heap[roundStates[last'.code]].roundIndex + 1
               N == rooms[last'.code].settings.rounds
           IN IF nextRoundIndex < N
              THEN /\ last'.res = "round"
                   /\ heap'[roundStates'[last'.code]].roundIndex = nextRoundIndex
              ELSE /\ last'.res = "game_over"
                   /\ rooms'[last'.code].phase = "game_over"
                   /\ roundStates' = roundStates
     /\ \A code \in DOMAIN roundStates' \cap DOMAIN rooms' :
          /\ 0 <= heap'[roundStates'[code]].roundIndex
          /\ heap'[roundStates'[code]].roundIndex < rooms'[code].settings.rounds]_vars

\* C22: at game over, for a room with at least one player, the final
\* leaderboard is sorted by cumulative score descending; winner is non-null
\* exactly when a single player holds the maximum score, and is that player;
\* isDraw is true exactly when two or more players share the maximum score;
\* hence winner = null if and only if isDraw.
C22_GameEnd ==
  [][(last'.res = "game_over" /\ rooms'[last'.code].players # <<>>)
     => LET players == rooms'[last'.code].players
            final == last'.final
            board == final.finalLeaderboard
            top == {i \in 1..Len(players) :
                      \A j \in 1..Len(players) : players[j].score <= players[i].score}
        IN /\ Len(board) = Len(players)
           /\ \A i \in 1..Len(players) :
                \E k \in 1..Len(board) :
                  board[k] = [playerId |-> players[i].id, playerName |-> players[i].name,
                              totalPoints |-> players[i].score]
           /\ \A k \in 1..(Len(board) - 1) : board[k].totalPoints >= board[k + 1].totalPoints
           /\ final.winner # <<>> <=> Cardinality(top) = 1
           /\ final.winner # <<>> =>
                \E i \in top : /\ final.winner[1].playerId = players[i].id
                               /\ final.winner[1].playerName = players[i].name
                               /\ final.winner[1].totalPoints = players[i].score
           /\ final.isDraw <=> Cardinality(top) >= 2
           /\ final.winner = <<>> <=> final.isDraw]_vars

\* The game just ended in a draw at 7 points between the second and the third
\* player of the room, ahead of the first.
C22_Witness ==
  /\ last.op = "endRound" /\ last.res = "game_over"
  /\ last.final.isDraw /\ last.final.winner = <<>>
  /\ Len(last.final.finalLeaderboard) = 3
  /\ last.final.finalLeaderboard[1].totalPoints = 7
  /\ last.final.finalLeaderboard[3].playerId = rooms[last.code].players[1].id
  /\ last.final.finalLeaderboard[3].totalPoints < 7

\* C23: playAgain sets the room's phase to lobby, sets every player's score to
\* 0 and removes the room's round state, and leaves the player set, the
\* connected flags, the host assignment and the settings unchanged.
C23_PlayAgain ==
  [][(last'.op = "playAgain" /\ last'.res = "true")
     => LET before == rooms[last'.code]
            after == rooms'[last'.code]
        IN /\ after.phase = "lobby"
           /\ \A i \in 1..Len(after.players) : after.players[i].score = 0
           /\ last'.code \notin DOMAIN roundStates'
           /\ Len(after.players) = Len(before.players)
           /\ \A i \in 1..Len(before.players) :
                /\ after.players[i].key = before.players[i].key
                /\ after.players[i].id = before.players[i].id
                /\ after.players[i].name = before.players[i].name
                /\ after.players[i].connected = before.players[i].connected
                /\ after.players[i].isHost = before.players[i].isHost
           /\ after.hostPlayerId = before.hostPlayerId
           /\ after.settings = before.settings
           /\ \A code \in DOMAIN rooms \ {last'.code} : rooms'[code] = rooms[code]]_vars

\* playAgain just discarded the round state of a room whose settings the host
\* had changed and one of whose players is disconnected.
C23_Witness ==
  /\ last.op = "playAgain" /\ last.res = "true" /\ last.round # 0
  /\ rooms[last.code].phase = "lobby"
  /\ last.code \notin DOMAIN roundStates
  /\ rooms[last.code].settings.gameMode = "guess"
  /\ \E i \in 1..Len(rooms[last.code].players) : ~rooms[last.code].players[i].connected

\* C24: createRoom always gives the new room a 6-character code over the
\* alphabet ABCDEFGHJKLMNPQRSTUVWXYZ23456789 that is not the code of a live
\* room, also when the timestamp fallback is used; it never replaces or alters
\* an existing live room.
C24_FreshCode ==
  [][last'.op = "createRoom"
     => /\ Len(last'.code) = 6
        /\ \A i \in 1..Len(last'.code) :
             \E k \in 1..Len(RoomCodeChars) : RoomCodeChars[k] = last'.code[i]
        /\ last'.code \notin DOMAIN rooms
        /\ \A code \in DOMAIN rooms : code \in DOMAIN rooms' /\ rooms'[code] = rooms[code]]_vars

\* Number of occurrences of character c in string s.
Occurrences(s, c) == Len(SelectSeq(s, LAMBDA x : x = c))

\* The step is the acceptance of a word in a classic round.
AcceptedClassic ==
  /\ last'.op = "submitWord" /\ last'.res = "ok"
  /\ heap[last'.round].gameMode = "classic"

\* C25: an accepted classic-mode word of length L against source word S is
\* awarded base(L) + bonus points, base(3)=1, base(4)=2, base(5)=4, base(6)=7,
\* base(L>=7)=11, and bonus = 8 exactly when fullBonusEnabled is true and the
\* word has the letter multiset of S, else 0.
C25_Points ==
  [][(AcceptedClassic /\ Len(last'.word) >= 3)
     => LET word == last'.word
            S == heap[last'.round].sourceWord
            L == Len(word)
            base == CASE L = 3 -> 1 [] L = 4 -> 2 [] L = 5 -> 4 [] L = 6 -> 7
                      [] OTHER -> 11
            sameLetters == \A i \in 1..26 :
                             Occurrences(word, LowerChars[i]) = Occurrences(S, LowerChars[i])
            bonus == IF rooms[last'.code].settings.fullBonusEnabled /\ sameLetters
                     THEN 8 ELSE 0
        IN last'.points = base + bonus]_vars

\* "settler", an anagram of the source word "letters", was accepted with the
\* bonus: 11 + 8 points.
C25_Witness ==
  /\ last.op = "submitWord" /\ last.res = "ok"
  /\ last.word = W_settler /\ last.points = 19
  /\ heap[last.round].sourceWord = W_letters
  /\ heap[last.round].gameMode = "classic"
  /\ rooms[last.code].settings.fullBonusEnabled

\* C26: longer words score at least as many base points as shorter ones: for
\* every two lengths a < b of words a classic round accepts (length >= minLen,
\* minLen settable from 2 to 7), calculatePoints(a) <= calculatePoints(b).
C26_Monotone ==
  [][AcceptedClassic
     => \A v \in heap'[last'.round].usedWordsGlobal :
          LET a == Min(Len(v), Len(last'.word))
              b == Max(Len(v), Len(last'.word))
          IN calculatePoints(a) <= calculatePoints(b)]_vars

\* Letter-multiset containment, case-insensitive: every letter occurs in
\* `word` at most as often as in `source`.
Contained(word, source) ==
  \A i \in 1..26 :
    Occurrences(word, LowerChars[i]) + Occurrences(word, UpperChars[i])
      <= Occurrences(source, LowerChars[i]) + Occurrences(source, UpperChars[i])

C28_Awards ==
  [][(last'.op = "submitWord" /\ Arrived /\ last'.code \in DOMAIN rooms)
     => LET before == rooms[last'.code].players
            after == rooms'[last'.code].players
            accepted == /\ last'.res = "ok"
                        /\ heap[last'.round].gameMode = "classic"
            count == IF last'.round \in DOMAIN heap'
                     THEN Len(Get(heap'[last'.round].submissionsByPlayerId, last'.pid, <<>>))
                     ELSE 0
        IN /\ Len(after) = Len(before)
           /\ \A i \in 1..Len(before) :
                LET theirs == accepted /\ before[i].id = last'.pid
                IN /\ after[i].powerUps.freeze - before[i].powerUps.freeze
                        = (IF theirs /\ count = 5 THEN 1 ELSE 0)
                   /\ after[i].powerUps.burn - before[i].powerUps.burn
                        = (IF theirs /\ last'.points >= 10 THEN 1 ELSE 0)]_vars

\* C29: in classic mode the source word drawn for a new round of a room is
\* never a source word already used in an earlier round of that room, unless
\* every available source word has been used.  Stated for the round nextRound
\* creates after the results of the first round ever played: one source word
\* is used, the other is still available.
C29_FreshSourceWord ==
  [][(/\ last'.op = "nextRound" /\ last'.res = "round"
      /\ calls.rounds = 1
      /\ rooms[last'.code].phase = "round_results"
      /\ heap[roundStates[last'.code]].gameMode = "classic"
      /\ heap'[roundStates'[last'.code]].gameMode = "classic")
     => LET used == {heap[roundStates[last'.code]].sourceWord}
        IN SourceWords \ used # {}
             => heap'[roundStates'[last'.code]].sourceWord \notin used]_vars

\* C30: getRoundEndState includes the round's correct answer if and only if
\* the round's mode is guess, scramble or teaser and no player submitted the
\* correct answer during that round; in a classic round, and in any round that
\* a player solved, correctAnswer is absent.  A player has submitted the
\* correct answer when the round records a solver or lists the answer among
\* its accepted words.
C30_CorrectAnswer ==
  \A code \in DOMAIN rooms \cap DOMAIN roundStates :
    LET roundState == heap[roundStates[code]]
        answered == \/ roundState.solvedBy # Undefined
                    \/ roundState.correctAnswer \in roundState.usedWordsGlobal
    IN getRoundEndState(rooms[code], roundState).correctAnswer # UndefinedWord
         <=> (/\ roundState.gameMode \in {"guess", "scramble", "teaser"}
              /\ ~answered)

\* C31: in every game mode an accepted submission increases the submitter's
\* round score by exactly the pointsAwarded it returns, so the roundPoints
\* getRoundEndState reports for a player are the points awarded to that player
\* in the round, and the leaderboard is sorted by roundPoints descending.
C31_RoundPoints ==
  [][(/\ last'.op = "submitWord" /\ last'.res = "ok"
      /\ last'.code \in DOMAIN rooms' /\ last'.code \in DOMAIN roundStates'
      /\ roundStates'[last'.code] = last'.round)
     => LET before == heap[last'.round].roundScoresByPlayerId
            after == heap'[last'.round].roundScoresByPlayerId
            board == getRoundEndState(rooms'[last'.code], heap'[last'.round]).leaderboard
        IN /\ Get(after, last'.pid, 0) - Get(before, last'.pid, 0) = last'.points
           /\ \A k \in 1..Len(board) :
                board[k].roundPoints = Get(after, board[k].playerId, 0)
           /\ \A k \in 1..(Len(board) - 1) :
                board[k].roundPoints >= board[k + 1].roundPoints]_vars

\* C34: first to claim a word owns it: when two players submit the same valid
\* classic-mode word in one round, the word is credited to the submission the
\* server received first, whatever order the two dictionary validations
\* complete in.  `pending` lists the suspended submissions in the order of
\* their arrival.
C34_FirstToClaim ==
  [][(last'.op = "submitWord" /\ last'.res = "ok" /\ ~Arrived)
     => \E i \in 1..Len(pending) :
          /\ pending' = RemoveAt(pending, i)
          /\ pending[i].word = last'.word /\ pending[i].playerId = last'.pid
          /\ \A j \in 1..(i - 1) :
               ~(/\ pending[j].word = pending[i].word
                 /\ pending[j].round = pending[i].round
                 /\ pending[j].playerId # pending[i].playerId)]_vars

\* C35: a classic-mode submission received while the round was open whose
\* dictionary validation completes after that round is over (endRound,
\* nextRound, startGame or playAgain has run in between, or endsAt has passed)
\* changes no player's score, no power-up counter and no round's used-word set
\* or submission lists.
C35_LateValidation ==
  [][(/\ last'.op = "submitWord" /\ ~Arrived
      /\ \/ last'.code \notin DOMAIN rooms
         \/ rooms[last'.code].phase # "round"
         \/ Get(roundStates, last'.code, 0) # last'.round
         \/ now >= heap[last'.round].endsAt)
     => /\ rooms' = rooms
        /\ \A r \in DOMAIN heap \cap DOMAIN heap' :
             /\ heap'[r].usedWordsGlobal = heap[r].usedWordsGlobal
             /\ heap'[r].submissionsByPlayerId = heap[r].submissionsByPlayerId
             /\ heap'[r].roundScoresByPlayerId = heap[r].roundScoresByPlayerId
             /\ heap'[r].scoresByPlayerId = heap[r].scoresByPlayerId]_vars

\* C38: a room leaves phase round only after the round's endsAt has passed
\* or the round has been solved; an endRound or nextRound request made before
\* that leaves the running round in place.
C38_RoundRunsToEnd ==
  [][(/\ last'.op \in {"endRound", "nextRound"}
      /\ last'.code \in DOMAIN rooms /\ last'.code \in DOMAIN roundStates
      /\ rooms[last'.code].phase = "round"
      /\ now < heap[roundStates[last'.code]].endsAt
      /\ heap[roundStates[last'.code]].solvedBy = Undefined)
     => /\ rooms'[last'.code].phase = "round"
        /\ roundStates'[last'.code] = roundStates[last'.code]]_vars

\* C39: whenever a room has a round state, scoresByPlayerId of that round
\* state holds, for every player of the room, the player's cumulative score:
\* from the start of every round, after every accepted submission and after
\* every burn.
C39_ScoreSnapshot ==
  \A code \in DOMAIN rooms \cap DOMAIN roundStates :
    \A i \in 1..Len(rooms[code].players) :
      LET player == rooms[code].players[i]
      IN Get(heap[roundStates[code]].scoresByPlayerId, player.key, 0) = player.score

\* C40: every entry of a room's player map is keyed by the player's own id
\* (key = player.id), also after the player has reconnected through joinRoom
\* with a new id; so a call addressed to a player's current id finds the
\* player.
C40_KeyedById ==
  \A code \in DOMAIN rooms :
    \A i \in 1..Len(rooms[code].players) :
      rooms[code].players[i].key = rooms[code].players[i].id

\* The round now running in room `code` is the one in which callback `t` was
\* scheduled.
SameRound(t) ==
  /\ t.code \in DOMAIN rooms /\ t.code \in DOMAIN roundStates
  /\ rooms[t.code].phase = "round"
  /\ t.rounds = calls.rounds

\* The running round of room `code` has had a correct answer accepted: the
\* delayed endRound scheduled for it is still waiting.
AnswerAccepted(code) ==
  \E i \in 1..Len(timers) :
    timers[i].op = "endRound" /\ timers[i].code = code /\ SameRound(timers[i])

\* C32: after a correct answer has been accepted in a guess or scramble round
\* (solved = true), the scheduled callback ends the round early: the room
\* eventually leaves phase round, and no further submission is awarded points
\* in that round.
C32_SolvedEndsRound ==
  /\ \A code \in RoomCodes :
       (last.op = "submitWord" /\ last.solved /\ last.code = code)
         ~> (code \notin DOMAIN rooms \/ rooms[code].phase # "round")
  /\ [][(last'.op = "submitWord" /\ AnswerAccepted(last'.code))
          => last'.points = 0]_vars

\* C33: once the clock has reached a running round's endsAt, the room moves
\* from round to round_results or game_over, whether or not any client sends
\* round:end.
C33_TimerEndsRound ==
  \A code \in RoomCodes :
    (/\ code \in DOMAIN rooms /\ code \in DOMAIN roundStates
     /\ rooms[code].phase = "round"
     /\ now >= heap[roundStates[code]].endsAt)
      ~> (code \notin DOMAIN rooms \/ rooms[code].phase # "round")

\* C36: the delayed endRound scheduled after a correct answer ends only the
\* round in which the answer was given; when that round is over and a later
\* round runs, or the room is back in the lobby or deleted, the callback
\* changes no room.
C36_StaleEndRound ==
  [][\A i \in 1..Len(timers) :
       (/\ timers' = RemoveAt(timers, i)
        /\ timers[i].op = "endRound" /\ last'.op = "endRound"
        /\ ~SameRound(timers[i]))
       => rooms' = rooms]_vars

\* C37: of several game:start or round:next countdowns in flight, only one
\* starts a round: a countdown that ends after another round has been started
\* since it was requested starts no round and replaces none.
C37_OneRoundPerCountdown ==
  [][\A i \in 1..Len(timers) :
       (/\ timers' = RemoveAt(timers, i)
        /\ timers[i].op \in {"startGame", "nextRound"}
        /\ timers[i].rounds # calls.rounds)
       => /\ calls'.rounds = calls.rounds
          /\ roundStates' = roundStates
          /\ rooms' = rooms]_vars

====
